---- MODULE Spec2Model ----
(***************************************************************************)
(* Verification model of the HYAB data cleaner (hyab_data_cleaner_v2.py    *)
(* and hyab_data_cleaner_v3.py): the locale-numeric parser, the sheet      *)
(* resolver, the record extractors, the currency conversion and the        *)
(* analytics functions.                                                    *)
(*                                                                         *)
(* Text is a sequence of one-character strings.  A Python float is an      *)
(* exact decimal held as an integer number of 1/Unit (fixed point), so     *)
(* "1,10" and "1.1" parse to the same value and "11" to a different one.   *)
(***************************************************************************)
EXTENDS Integers, Sequences, FiniteSets, TLC

VARIABLES
    pc,             \* position of the run being modelled
    raw_value,      \* parser input: a cell value (text or None)
    amount_res,     \* result of clean_amount_with_currency(raw_value)
    number_res,     \* result of clean_number(raw_value)
    number_res3,    \* result of the v3 clean_num(raw_value)
    sheetnames,     \* wb.sheetnames of the workbook handed to find_sheet
    possible_names, \* the candidate names handed to find_sheet
    sheet_res,      \* result of v2 find_sheet
    sheet_res3,     \* result of v3 find_sheet
    data,           \* parse_master's result: customers and ltm_trend
    curr_ltm,       \* label of the current LTM period
    prev_ltm,       \* label of the previous LTM period
    cohorts,        \* result of analyze_cohorts
    bridge,         \* the revenue-bridge figures generate_html computes
    ws_raw,         \* rows 2..max_row of the order-book sheet
    fx_rates,       \* the exchange-rate table
    orders,         \* result of parse_order_book
    orders3,        \* the orders the v3 Order Book loop collects
    current_orders, \* analyze_week_over_week's first argument
    previous_orders,\* analyze_week_over_week's second argument
    wow_data,       \* result of analyze_week_over_week
    wb_raw,         \* the uploaded sales workbook: sheet names and sheets
    master_file,    \* the master file uploaded next to the sales export, or None
    master_articles,\* load_master_articles' set, or None without a master file
    articles,       \* parse_sales_articles' list in the v2 Sales handler
    customers,      \* parse_sales_customers' list in the v2 Sales handler
    sales_results,  \* st.session_state['sales_results'] (v2)
    sales_error,    \* what the v2 Sales handler reported with st.error
    arts,           \* the records the v3 Sales loop collects
    sales_res,      \* st.session_state['sales_res'] (v3)
    sales_error3,   \* what the v3 Sales handler reported with st.error
    sales_page3,    \* outcome of rendering the v3 Sales result column
    master_customers, \* parse_sales_master's customer list (v2 Intelligence)
    analysis,       \* result of analyze_sales_intelligence
    book_orders,    \* the orders handed to the order-book analyses
    today,          \* analyze_order_aging's reference day
    threshold,      \* analyze_large_orders' threshold
    aging,          \* result of analyze_order_aging
    large,          \* result of analyze_large_orders
    concentration,  \* result of analyze_customer_concentration
    sold_articles,  \* the articles handed to create_sales_output_v2 (top-20 runs)
    pie_stats,      \* its stats: total and top20_articles
    pie_art,        \* the values of the article pie of the Sales page
    sales_error_sheets,  \* the sheet names the v2 Sales error message lists
    sales_error_sheets3, \* the sheet names the v3 Sales error message lists
    current_file,   \* the order book uploaded as this week's (v2)
    previous_file,  \* the order book uploaded as last week's, or None (v2)
    ob_results,     \* st.session_state['ob_results'] (v2)
    ob_error,       \* what the v2 Order Book handler reported with st.error
    ob_error_sheets,\* the sheet names its message lists
    file3,          \* the order book uploaded to the v3 page
    ob_res,         \* st.session_state['ob_res'] (v3)
    ob_error3,      \* what the v3 Order Book handler reported with st.error
    ob_error_sheets3, \* the sheet names its message lists
    ltm_keys,       \* the keys of data['ltm_trend'] in the v3 Intelligence handler
    intel_ltm,      \* st.session_state['intel_ltm']: (curr, prev)
    intel_error3    \* what the v3 Intelligence handler reported with st.error

parseVars == <<raw_value, amount_res, number_res, number_res3>>
sheetVars == <<sheetnames, possible_names, sheet_res, sheet_res3>>

cohortVars == <<data, curr_ltm, prev_ltm, cohorts, bridge>>

orderVars == <<ws_raw, fx_rates, orders, orders3>>
wowVars == <<current_orders, previous_orders, wow_data>>
salesIn == <<wb_raw, master_file>>
salesV2 == <<articles, customers, sales_results, sales_error, sales_error_sheets, master_articles>>
salesV3 == <<arts, sales_res, sales_error3, sales_error_sheets3, sales_page3>>
salesVars == <<salesIn, salesV2, salesV3>>

intelVars == <<master_customers, analysis>>
analyticsVars == <<book_orders, today, threshold, aging, large, concentration>>
top20Vars == <<sold_articles, pie_stats, pie_art>>
bookV2 == <<current_file, previous_file, ob_results, ob_error, ob_error_sheets>>
bookV3 == <<file3, ob_res, ob_error3, ob_error_sheets3>>
bookVars == <<bookV2, bookV3>>
periodVars == <<ltm_keys, intel_ltm, intel_error3>>

vars == <<pc, parseVars, sheetVars, cohortVars, orderVars, wowVars, salesVars,
          intelVars, analyticsVars, top20Vars, bookVars, periodVars>>

(***************************************************************************)
(* Bounds                                                                  *)
(***************************************************************************)
MaxLen == 4        \* longest numeric body of an enumerated cell text

(***************************************************************************)
(* Text                                                                    *)
(***************************************************************************)
NBSP == "nbsp"     \* the one-character string U+00A0
KELVIN == "kelvin" \* the one-character string U+212A, the Kelvin sign

Digits == {"0", "1", "2", "3", "4", "5", "6", "7", "8", "9"}

DigitVal(c) ==
    CASE c = "0" -> 0 [] c = "1" -> 1 [] c = "2" -> 2 [] c = "3" -> 3
      [] c = "4" -> 4 [] c = "5" -> 5 [] c = "6" -> 6 [] c = "7" -> 7
      [] c = "8" -> 8 [] c = "9" -> 9

\* Python's str.isspace / regex \s, restricted to the characters of the model
IsSpace(c) == c \in {" ", NBSP}

IsDigit(c) == c \in Digits

\* str.upper() on the letters the model uses
Upper(c) ==
    CASE c = "e" -> "E" [] c = "u" -> "U" [] c = "r" -> "R"
      [] c = "s" -> "S" [] c = "k" -> "K" [] c = "n" -> "N"
      [] c = "o" -> "O" [] c = "a" -> "A" [] c = "x" -> "X"
      [] c = "d" -> "D" [] c = "g" -> "G" [] c = "b" -> "B"
      [] c = "p" -> "P"
      [] OTHER -> c

UpperSeq(s) == [i \in 1..Len(s) |-> Upper(s[i])]

\* the letter of a pattern that c matches under re.IGNORECASE: the Kelvin sign
\* matches K, and str.upper() leaves it as it is
IgnoreCase(c) == IF c = KELVIN THEN "K" ELSE Upper(c)

IgnoreCaseSeq(s) == [i \in 1..Len(s) |-> IgnoreCase(s[i])]

RECURSIVE LStrip(_)
LStrip(s) == IF s # <<>> /\ IsSpace(Head(s)) THEN LStrip(Tail(s)) ELSE s

RECURSIVE RStrip(_)
RStrip(s) ==
    IF s # <<>> /\ IsSpace(s[Len(s)]) THEN RStrip(SubSeq(s, 1, Len(s) - 1)) ELSE s

\* str.strip()
Strip(s) == RStrip(LStrip(s))

\* s.replace(c, '') for every c in cs
Remove(s, cs) == SelectSeq(s, LAMBDA c : c \notin cs)

\* s.replace(',', '.')
CommaToDot(s) == [i \in 1..Len(s) |-> IF s[i] = "," THEN "." ELSE s[i]]

\* re.search(r',\d{2}$', s)
EndsCommaTwoDigits(s) ==
    /\ Len(s) >= 3
    /\ s[Len(s) - 2] = ","
    /\ IsDigit(s[Len(s) - 1])
    /\ IsDigit(s[Len(s)])

EndsWith(s, c) == s # <<>> /\ s[Len(s)] = c

\* all sequences over S of length at most n
RECURSIVE SeqsUpTo(_, _)
SeqsUpTo(S, n) ==
    IF n = 0 THEN {<<>>}
    ELSE LET prev == SeqsUpTo(S, n - 1) IN
         prev \cup {Append(s, c) : s \in {p \in prev : Len(p) = n - 1}, c \in S}

RECURSIVE Pow10(_)
Pow10(n) == IF n = 0 THEN 1 ELSE 10 * Pow10(n - 1)

\* one unit of the fixed-point representation of floats
Unit == Pow10(MaxLen)

(***************************************************************************)
(* Python float(s) on the characters of the model: an optional sign, then  *)
(* digits with at most one '.', at least one digit; anything else raises   *)
(* ValueError.                                                             *)
(***************************************************************************)
RECURSIVE DigitsVal(_)
DigitsVal(s) ==
    IF s = <<>> THEN 0 ELSE 10 * DigitsVal(SubSeq(s, 1, Len(s) - 1)) + DigitVal(s[Len(s)])

FloatBody(s) == IF s # <<>> /\ Head(s) \in {"-", "+"} THEN Tail(s) ELSE s

FloatOk(s) ==
    LET b == FloatBody(s) IN
    /\ \A i \in 1..Len(b) : IsDigit(b[i]) \/ b[i] = "."
    /\ Cardinality({i \in 1..Len(b) : b[i] = "."}) <= 1
    /\ \E i \in 1..Len(b) : IsDigit(b[i])

FloatVal(s) ==
    LET b    == FloatBody(s)
        dots == {i \in 1..Len(b) : b[i] = "."}
        frac == IF dots = {} THEN 0 ELSE Len(b) - (CHOOSE i \in dots : TRUE)
        mant == DigitsVal(Remove(b, {"."}))
        sign == IF s # <<>> /\ Head(s) = "-" THEN -1 ELSE 1
    IN  sign * mant * (Unit \div Pow10(frac))

(***************************************************************************)
(* Result values                                                           *)
(***************************************************************************)
NoneText == <<"N", "o", "n", "e">>

\* a cell value: None, or text (str(raw_value) of a text or number cell)
NoneCell == [isNone |-> TRUE, text |-> <<>>]
TextCell(t) == [isNone |-> FALSE, text |-> t]

\* (amount, currency) or (None, None)
AmountNone == [ok |-> FALSE, amount |-> 0, currency |-> "none"]
AmountOf(a, c) == [ok |-> TRUE, amount |-> a, currency |-> c]

\* None, a float, or a passed-through string
NumNone == [tag |-> "none", val |-> 0, text |-> <<>>]
NumFloat(v) == [tag |-> "float", val |-> v, text |-> <<>>]
NumStr(t) == [tag |-> "str", val |-> 0, text |-> t]

(***************************************************************************)
(* clean_amount_with_currency (v2 269-292)                                 *)
(***************************************************************************)
CurrencyCodes == {<<"S", "E", "K">>, <<"E", "U", "R">>, <<"U", "S", "D">>, <<"G", "B", "P">>}

CodeName(code) ==
    CASE code = <<"S", "E", "K">> -> "SEK" [] code = <<"E", "U", "R">> -> "EUR"
      [] code = <<"U", "S", "D">> -> "USD" [] code = <<"G", "B", "P">> -> "GBP"
      [] code = <<"S", "E", KELVIN>> -> "SE[U+212A]"

\* [\d\s\xa0\.,]
InAmountClass(c) == IsDigit(c) \/ IsSpace(c) \/ c \in {".", ","}

\* length of the greedy match of ([\d\s\xa0\.,]+) at the start of s (0: no match)
RECURSIVE AmountPrefixLen(_)
AmountPrefixLen(s) ==
    IF s # <<>> /\ InAmountClass(Head(s)) THEN 1 + AmountPrefixLen(Tail(s)) ELSE 0

\* group(2): (SEK|EUR|USD|GBP)? right after group(1), re.IGNORECASE; <<>> when absent
CurrencyGroup(s, n) ==
    IF Len(s) >= n + 3 /\ IgnoreCaseSeq(SubSeq(s, n + 1, n + 3)) \in CurrencyCodes
    THEN SubSeq(s, n + 1, n + 3)
    ELSE <<>>

\* the decimal-comma rule shared by both parsers (v2 282-285, 307-310)
ApplySeparatorRuleKeepDots(s) ==
    IF EndsCommaTwoDigits(s) THEN CommaToDot(s) ELSE Remove(s, {","})

ApplySeparatorRule(s) ==
    IF EndsCommaTwoDigits(s) THEN CommaToDot(Remove(s, {"."})) ELSE Remove(s, {","})

clean_amount_with_currency(cell) ==
    IF cell.isNone THEN AmountNone
    ELSE LET raw == Strip(cell.text)
             n   == AmountPrefixLen(raw)
         IN  IF n = 0 THEN AmountNone
             ELSE LET amount_str == Remove(SubSeq(raw, 1, n), {NBSP, " "})
                      grp        == CurrencyGroup(raw, n)
                      currency   == IF grp # <<>> THEN CodeName(UpperSeq(grp)) ELSE "SEK"
                      cleaned    == ApplySeparatorRule(amount_str)
                  IN  IF FloatOk(cleaned) THEN AmountOf(FloatVal(cleaned), currency)
                      ELSE AmountNone

(***************************************************************************)
(* clean_number (v2 295-315)                                               *)
(***************************************************************************)
Sentinels == {<<>>, <<"n", "/", "a">>, NoneText, <<"-">>}

clean_numberNoSentinels(cell) ==
    IF cell.isNone THEN NumNone
    ELSE LET raw == Strip(cell.text) IN
         IF EndsWith(raw, "%") THEN NumStr(raw)
         ELSE LET cleaned == ApplySeparatorRule(Remove(raw, {NBSP, " "})) IN
              IF FloatOk(cleaned) THEN NumFloat(FloatVal(cleaned)) ELSE NumStr(raw)

\* a plausible slip: the percent sign is dropped and the number is parsed
clean_numberPercentAsNumber(cell) ==
    IF cell.isNone THEN NumNone
    ELSE LET raw  == Strip(cell.text)
             body == IF EndsWith(raw, "%") THEN SubSeq(raw, 1, Len(raw) - 1) ELSE raw
         IN  IF body \in Sentinels THEN NumNone
             ELSE LET cleaned == ApplySeparatorRule(Remove(body, {NBSP, " "})) IN
                  IF FloatOk(cleaned) THEN NumFloat(FloatVal(cleaned)) ELSE NumStr(raw)

clean_number(cell) ==
    IF cell.isNone THEN NumNone
    ELSE LET raw == Strip(cell.text) IN
         IF EndsWith(raw, "%") THEN NumStr(raw)
         ELSE IF raw \in Sentinels THEN NumNone
         ELSE LET cleaned == ApplySeparatorRule(Remove(raw, {NBSP, " "})) IN
              IF FloatOk(cleaned) THEN NumFloat(FloatVal(cleaned)) ELSE NumStr(raw)

(***************************************************************************)
(* Master data and cohorts (v3 216-331)                                    *)
(*                                                                         *)
(* A customer's ltm maps period labels to revenue.  parse_master stores    *)
(* only non-zero numbers and every reader uses .get(label, 0), so an       *)
(* absent label and the value 0 are the same thing: ltm is total here,     *)
(* with 0 for an absent label.  Revenue may be negative (credit notes).    *)
(***************************************************************************)
MaxCust == 2       \* most customer rows in the master sheet

PeriodLabels == {"LTM 2023-dec", "LTM 2024-dec"}

Kunder == {"A", "B"}

Revenues == {-1, 0, 1, 2}

CustomerRecords == [kund : Kunder, ltm : [PeriodLabels -> Revenues], churned : BOOLEAN]

RECURSIVE SumSeq(_)
SumSeq(s) == IF s = <<>> THEN 0 ELSE Head(s) + SumSeq(Tail(s))

Abs(x) == IF x < 0 THEN -x ELSE x

\* sorted(s, key=...) and sorted(s, key=..., reverse=True) on the keys of the
\* elements; both are stable
\* the list left in the order it was built in
SortDescKeepOrder(s, keys) == s

SortAsc(s, keys) ==
    LET pos(i) == 1 + Cardinality({j \in 1..Len(s) :
                        keys[j] < keys[i] \/ (keys[j] = keys[i] /\ j < i)})
    IN  [k \in 1..Len(s) |-> s[CHOOSE i \in 1..Len(s) : pos(i) = k]]

SortDesc(s, keys) ==
    LET pos(i) == 1 + Cardinality({j \in 1..Len(s) :
                        keys[j] > keys[i] \/ (keys[j] = keys[i] /\ j < i)})
    IN  [k \in 1..Len(s) |-> s[CHOOSE i \in 1..Len(s) : pos(i) = k]]

\* c['ltm'].get(label, 0)
LtmGet(c, label) == c.ltm[label]

\* parse_master 281-283: ltm_trend[l] = sum of the customers' ltm at l, for
\* every label some customer holds
LtmTrend(cs) ==
    [l \in {x \in PeriodLabels : \E i \in 1..Len(cs) : cs[i].ltm[x] # 0} |->
        SumSeq([i \in 1..Len(cs) |-> LtmGet(cs[i], l)])]

\* data['ltm_trend'].get(label, 0)
TrendGet(d, label) == IF label \in DOMAIN d.ltm_trend THEN d.ltm_trend[label] ELSE 0

MasterData(cs) == [customers |-> cs, ltm_trend |-> LtmTrend(cs)]

\* a percentage is the exact quotient num / den
Pct(num, den) == [num |-> num, den |-> den]

\* (chg/pre_v*100) if pre_v > 0 else 0, dividing whenever pre_v is not 0
PctOfNonZero(chg, pre_v) == IF pre_v # 0 THEN Pct(chg * 100, pre_v) ELSE Pct(0, 1)

\* (chg/pre_v*100) if pre_v > 0 else 0
PctOf(chg, pre_v) == IF pre_v > 0 THEN Pct(chg * 100, pre_v) ELSE Pct(0, 1)

\* the first branch without the churn marker
IsChurnedNoMarker(c, curr, prev) ==
    LtmGet(c, prev) > 0 /\ LtmGet(c, curr) = 0

\* the branches of the if / elif chain of analyze_cohorts (v3 293-300)
IsChurned(c, curr, prev) ==
    c.churned \/ (LtmGet(c, prev) > 0 /\ LtmGet(c, curr) = 0)

\* the second branch taken as an independent if
IsNewNoElif(c, curr, prev) ==
    LtmGet(c, prev) = 0 /\ LtmGet(c, curr) > 0

IsNew(c, curr, prev) ==
    /\ ~IsChurned(c, curr, prev)
    /\ LtmGet(c, prev) = 0 /\ LtmGet(c, curr) > 0

IsDeclining(c, curr, prev) ==
    /\ ~IsChurned(c, curr, prev)
    /\ ~IsNew(c, curr, prev)
    /\ LtmGet(c, curr) - LtmGet(c, prev) < 0

IsGrowing(c, curr, prev) ==
    /\ ~IsChurned(c, curr, prev)
    /\ ~IsNew(c, curr, prev)
    /\ ~IsDeclining(c, curr, prev)
    /\ LtmGet(c, curr) - LtmGet(c, prev) > 0

ChurnedEntry(c, curr, prev) ==
    [kund |-> c.kund, previous |-> LtmGet(c, prev), current |-> LtmGet(c, curr),
     change |-> LtmGet(c, curr) - LtmGet(c, prev)]

NewEntry(c, curr, prev) == [kund |-> c.kund, current |-> LtmGet(c, curr)]

MovedEntry(c, curr, prev) ==
    [kund |-> c.kund, previous |-> LtmGet(c, prev), current |-> LtmGet(c, curr),
     change |-> LtmGet(c, curr) - LtmGet(c, prev),
     pct |-> PctOf(LtmGet(c, curr) - LtmGet(c, prev), LtmGet(c, prev))]

analyze_cohorts(d, curr, prev) ==
    LET cs        == d.customers
        churned   == SelectSeq(cs, LAMBDA c : IsChurned(c, curr, prev))
        new       == SelectSeq(cs, LAMBDA c : IsNew(c, curr, prev))
        declining == SelectSeq(cs, LAMBDA c : IsDeclining(c, curr, prev))
        growing   == SelectSeq(cs, LAMBDA c : IsGrowing(c, curr, prev))
        ch == [i \in 1..Len(churned) |-> ChurnedEntry(churned[i], curr, prev)]
        nw == [i \in 1..Len(new) |-> NewEntry(new[i], curr, prev)]
        de == [i \in 1..Len(declining) |-> MovedEntry(declining[i], curr, prev)]
        gr == [i \in 1..Len(growing) |-> MovedEntry(growing[i], curr, prev)]
    IN  [churned   |-> SortDesc(ch, [i \in 1..Len(ch) |-> ch[i].previous]),
         declining |-> SortAsc(de, [i \in 1..Len(de) |-> de[i].change]),
         growing   |-> SortDesc(gr, [i \in 1..Len(gr) |-> gr[i].change]),
         new       |-> SortDesc(nw, [i \in 1..Len(nw) |-> nw[i].current])]

\* generate_html 322-331: the totals and the four bridge components
generate_html(d, curr, prev) ==
    LET co == analyze_cohorts(d, curr, prev) IN
    [total_ltm    |-> TrendGet(d, curr),
     prev_ltm_val |-> TrendGet(d, prev),
     churn_loss   |-> SumSeq([i \in 1..Len(co.churned) |-> co.churned[i].previous]),
     decline_loss |-> Abs(SumSeq([i \in 1..Len(co.declining) |-> co.declining[i].change])),
     growth_gain  |-> SumSeq([i \in 1..Len(co.growing) |-> co.growing[i].change]),
     new_gain     |-> SumSeq([i \in 1..Len(co.new) |-> co.new[i].current])]

(***************************************************************************)
(* Order book: parse_order_book (v2 349-378), the v3 Order Book loop       *)
(* (v3 547-553) and analyze_week_over_week (v2 723-747)                    *)
(*                                                                         *)
(* A sheet is the sequence of its rows 2..max_row; a row holds the cells   *)
(* the extractor reads.  The status columns are copied through unread and  *)
(* are left out.                                                           *)
(***************************************************************************)
MaxRows == 2       \* most data rows in an order-book sheet
MaxOrders == 2     \* most orders in a list handed to analyze_week_over_week

\* Exchange rates are held in thousandths.  DEFAULT_FX_RATES:
FxDefault ==
    [c \in {"SEK", "EUR", "USD", "GBP"} |->
        CASE c = "SEK" -> 1000
          [] c = "EUR" -> 11200
          [] c = "USD" -> 10500
          [] c = "GBP" -> 13300]

\* a table the user has edited, and a table holding EUR alone
FxEdited == [FxDefault EXCEPT !["EUR"] = 11255]
FxEurOnly == [c \in {"EUR"} |-> 11200]

FxTables == {FxDefault, FxEdited, FxEurOnly}

\* fx_rates.get(valuta, 1.0)
FxGet(fx, valuta) == IF valuta \in DOMAIN fx THEN fx[valuta] ELSE 1000

\* belopp * rate in hundredths, as a whole part and a remainder n / d: the
\* product is formed in two parts so that no intermediate value leaves the
\* 32-bit integers of the checker (belopp in units, rate in thousandths)
ProductParts(belopp, rate) ==
    LET whole == (belopp \div Unit) * rate
    IN  [q |-> whole \div 10,
         n |-> (whole % 10) * Unit + (belopp % Unit) * rate,
         d |-> Unit * 10]

\* belopp * rate without round(): cut to the hundredth below
ConvertUnrounded(belopp, rate) ==
    LET p == ProductParts(belopp, rate) IN (p.q + p.n \div p.d) * (Unit \div 100)

\* round(belopp * rate, 2): the nearest hundredth, ties to even
Convert(belopp, rate) ==
    LET p == ProductParts(belopp, rate)
        q == p.q + p.n \div p.d
        r == p.n % p.d
        h == IF 2 * r < p.d THEN q
             ELSE IF 2 * r > p.d THEN q + 1
             ELSE IF q % 2 = 0 THEN q ELSE q + 1
    IN  h * (Unit \div 100)

\* a date cell: a datetime (as a day number), or anything else
DateCell(d) == [isDate |-> TRUE, day |-> d]
NoDateCell == [isDate |-> FALSE, day |-> 0]

\* the cell's value kept whatever its type
OrderDateAnyValue(cell) == cell

\* isinstance(orderdatum, datetime)
OrderDate(cell) == IF cell.isDate THEN cell ELSE NoDateCell

AmountCellTexts ==
    {<<"1", "0", "0", " ", "E", "U", "R">>,
     <<"1", ",", "5", "0">>,
     <<"0", ".", "1", "2", "5", " ", "u", "s", "d">>,
     <<"0", ".", "3", "7", "5", " ", "u", "s", "d">>,
     <<"2", ".", "5", "G", "B", "P">>,
     <<"x">>}

AmountCells == {NoneCell} \cup {TextCell(t) : t \in AmountCellTexts}

OrderRows ==
    [c1 : {"A", "B"}, c2 : {DateCell(10), NoDateCell}, c3 : {"K1"}, c6 : AmountCells]

OrderOfRow(row, fx) ==
    LET parsed == clean_amount_with_currency(row.c6) IN
    [ordernr    |-> row.c1,
     orderdatum |-> OrderDate(row.c2),
     kundnamn   |-> row.c3,
     belopp     |-> parsed.amount,
     valuta     |-> parsed.currency,
     belopp_sek |-> Convert(parsed.amount, FxGet(fx, parsed.currency))]

\* the loop without the gate: an order for every row
parse_order_bookEveryRow(rows, fx) ==
    [i \in 1..Len(rows) |-> OrderOfRow(rows[i], fx)]

parse_order_book(rows, fx) ==
    LET kept == SelectSeq(rows, LAMBDA row : clean_amount_with_currency(row.c6).ok)
    IN  [i \in 1..Len(kept) |-> OrderOfRow(kept[i], fx)]

\* clean_amount (v3 188-197) is clean_amount_with_currency line for line
clean_amount(cell) == clean_amount_with_currency(cell)

OrderOfRowV3(row, fx) ==
    LET parsed == clean_amount(row.c6) IN
    [ordernr    |-> row.c1,
     orderdatum |-> OrderDate(row.c2),
     kundnamn   |-> row.c3,
     belopp_sek |-> Convert(parsed.amount, FxGet(fx, parsed.currency))]

order_book_loop_v3(rows, fx) ==
    LET kept == SelectSeq(rows, LAMBDA row : clean_amount(row.c6).ok)
    IN  [i \in 1..Len(kept) |-> OrderOfRowV3(kept[i], fx)]

\* {o['ordernr'] for o in orders}
OrderIds(os) == {os[i].ordernr : i \in 1..Len(os)}

\* sum(o['belopp_sek'] for o in orders)
TotalSek(os) == SumSeq([i \in 1..Len(os) |-> os[i].belopp_sek])

WowPart(os) == [count |-> Len(os), total |-> TotalSek(os), orders |-> os]

\* a plausible slip: the closed ids computed as current minus previous
analyze_week_over_weekSwapped(current, previous) ==
    LET new_ids       == OrderIds(current) \ OrderIds(previous)
        closed_ids    == OrderIds(current) \ OrderIds(previous)
        unchanged_ids == OrderIds(current) \cap OrderIds(previous)
        new_orders       == SelectSeq(current, LAMBDA o : o.ordernr \in new_ids)
        closed_orders    == SelectSeq(previous, LAMBDA o : o.ordernr \in closed_ids)
        unchanged_orders == SelectSeq(current, LAMBDA o : o.ordernr \in unchanged_ids)
    IN  [new        |-> WowPart(new_orders),
         closed     |-> WowPart(closed_orders),
         unchanged  |-> WowPart(unchanged_orders),
         net_count  |-> Len(new_orders) - Len(closed_orders),
         net_amount |-> TotalSek(new_orders) - TotalSek(closed_orders)]

analyze_week_over_week(current, previous) ==
    LET new_ids       == OrderIds(current) \ OrderIds(previous)
        closed_ids    == OrderIds(previous) \ OrderIds(current)
        unchanged_ids == OrderIds(current) \cap OrderIds(previous)
        new_orders       == SelectSeq(current, LAMBDA o : o.ordernr \in new_ids)
        closed_orders    == SelectSeq(previous, LAMBDA o : o.ordernr \in closed_ids)
        unchanged_orders == SelectSeq(current, LAMBDA o : o.ordernr \in unchanged_ids)
    IN  [new        |-> WowPart(new_orders),
         closed     |-> WowPart(closed_orders),
         unchanged  |-> WowPart(unchanged_orders),
         net_count  |-> Len(new_orders) - Len(closed_orders),
         net_amount |-> TotalSek(new_orders) - TotalSek(closed_orders)]

\* the orders handed to analyze_week_over_week: parsed orders, told apart by
\* order number and amount
WowOrder(id, sek) ==
    [ordernr |-> id, orderdatum |-> NoDateCell, kundnamn |-> "K1",
     belopp |-> sek, valuta |-> "SEK", belopp_sek |-> sek]

WowOrders == {WowOrder(id, sek) : id \in {"A", "B", "C"}, sek \in {100 * Unit, 250 * Unit}}

\* the documented example: current {A, B, C}, previous {A, B, D}
ExampleCurrent == <<WowOrder("A", 100 * Unit), WowOrder("B", 250 * Unit), WowOrder("C", 100 * Unit)>>
ExamplePrevious == <<WowOrder("A", 100 * Unit), WowOrder("B", 250 * Unit), WowOrder("D", 250 * Unit)>>

WowInputs ==
    (SeqsUpTo(WowOrders, MaxOrders) \X SeqsUpTo(WowOrders, MaxOrders))
        \cup {<<ExampleCurrent, ExamplePrevious>>}

NoWow ==
    [new |-> WowPart(<<>>), closed |-> WowPart(<<>>), unchanged |-> WowPart(<<>>),
     net_count |-> 0, net_amount |-> 0]

(***************************************************************************)
(* find_sheet (v2 254-266, v3 182-186)                                     *)
(*                                                                         *)
(* A workbook is its list of sheet names.  Sheet names of a workbook are   *)
(* unique ignoring case (the xlsx format and openpyxl both keep them so).  *)
(***************************************************************************)
MaxSheets == 3     \* most sheets in a workbook

\* str.lower() on the sheet and candidate names the model uses
Lower(n) ==
    CASE n = "Order book" -> "order book"
      [] n = "ORDER BOOK" -> "order book"
      [] n = "Order_book" -> "order_book"
      [] n = "Orderbook"  -> "orderbook"
      [] n = "Sheet1"     -> "sheet1"
      [] n = "Orders"     -> "orders"
      [] n = "Summary"    -> "summary"
      [] n = "Blad1"      -> "blad1"
      [] n = "Article"    -> "article"
      [] n = "Articles"   -> "articles"
      [] n = "Artikel"    -> "artikel"
      [] n = "Sales"      -> "sales"
      [] n = "Company"    -> "company"
      [] n = "Customer"   -> "customer"
      [] n = "Customers"  -> "customers"
      [] n = "Kund"       -> "kund"
      [] n = "Kunder"     -> "kunder"
      [] OTHER            -> n

Range(s) == {s[i] : i \in 1..Len(s)}

NoSheet == [found |-> FALSE, name |-> ""]
Sheet(n) == [found |-> TRUE, name |-> n]

\* {name.lower(): name for name in wb.sheetnames}: a later sheet overwrites an
\* earlier one under the same key
SheetNamesLower(wb) ==
    [k \in {Lower(n) : n \in Range(wb)} |->
        wb[CHOOSE i \in 1..Len(wb) :
              /\ Lower(wb[i]) = k
              /\ \A j \in 1..Len(wb) : Lower(wb[j]) = k => j <= i]]

\* a plausible slip: scan the sheets, not the candidates, in order
find_sheetBySheetOrder(wb, names) ==
    LET hits == {i \in 1..Len(wb) : \E j \in 1..Len(names) : Lower(names[j]) = Lower(wb[i])}
    IN  IF hits # {} THEN Sheet(wb[CHOOSE i \in hits : \A k \in hits : i <= k])
        ELSE IF Len(wb) = 1 THEN Sheet(wb[1])
        ELSE NoSheet

find_sheet(wb, names) ==
    LET sheet_names_lower == SheetNamesLower(wb)
        hits == {j \in 1..Len(names) : Lower(names[j]) \in DOMAIN sheet_names_lower}
    IN  IF hits # {}
        THEN Sheet(sheet_names_lower[Lower(names[CHOOSE j \in hits : \A k \in hits : j <= k])])
        ELSE IF Len(wb) = 1 THEN Sheet(wb[1])
        ELSE NoSheet

find_sheet_v3(wb, names) ==
    LET lower == SheetNamesLower(wb)
        hits  == {j \in 1..Len(names) : Lower(names[j]) \in DOMAIN lower}
    IN  IF hits # {}
        THEN Sheet(lower[Lower(names[CHOOSE j \in hits : \A k \in hits : j <= k])])
        ELSE IF Len(wb) = 1 THEN Sheet(wb[1]) ELSE NoSheet

\* candidate lists of the order-book modes (v2 1110, v3 544) and of the
\* documented example
OrderBookNamesV2 == <<"Order book", "Order_book", "Orderbook", "Sheet1", "Orders">>
OrderBookNamesV3 == <<"Order book", "Sheet1", "Orders">>
ExampleNames == <<"Orderbook", "Order book">>

SheetNameUniverse == {"Order book", "ORDER BOOK", "orders", "Sheet1", "Summary", "Blad1"}

Workbooks ==
    {wb \in SeqsUpTo(SheetNameUniverse, MaxSheets) :
        /\ Len(wb) >= 1
        /\ \A i, j \in 1..Len(wb) : i # j => Lower(wb[i]) # Lower(wb[j])}

(***************************************************************************)
(* Sales extraction and the Sales handlers (v2 385-462, 1201-1233;         *)
(* v3 199-207, 569-590)                                                    *)
(*                                                                         *)
(* A sales row holds the cells the extractors read: c1 (article or         *)
(* customer number), c2 (article name or customer), c3 and c4 (net         *)
(* amount of an article row and of a customer row), c6 (quantity out) and  *)
(* c7 (margin).  The workbook is its sheet names and, by name, the rows    *)
(* 2..max_row of each sheet.                                               *)
(***************************************************************************)
\* clean_num (v3 199-207): there is no '%' branch, and the cell itself comes
\* back when float() raises
clean_num(cell) ==
    IF cell.isNone THEN NumNone
    ELSE LET s == Strip(cell.text) IN
         IF s \in Sentinels THEN NumNone
         ELSE LET cleaned == ApplySeparatorRule(Remove(s, {NBSP, " "})) IN
              IF FloatOk(cleaned) THEN NumFloat(FloatVal(cleaned)) ELSE NumStr(cell.text)

\* summa is None or summa == 0
IsNoneOrZero(n) == n.tag = "none" \/ (n.tag = "float" /\ n.val = 0)

\* not (summa is None or summa == 0)
PassesGate(n) == ~IsNoneOrZero(n)

\* clean_number(...) or 0
OrZero(n) == IF IsNoneOrZero(n) THEN NumFloat(0) ELSE n

ArticleOfRow(row) ==
    [artikelnr   |-> Strip(row.c1.text),
     artikelnamn |-> row.c2,
     summa       |-> clean_number(row.c3),
     antal_ut    |-> OrZero(clean_number(row.c6)),
     tb          |-> clean_number(row.c7)]

parse_sales_articles(ws) ==
    LET kept == SelectSeq(ws, LAMBDA row :
                    ~row.c1.isNone /\ PassesGate(clean_number(row.c3)))
    IN  [i \in 1..Len(kept) |-> ArticleOfRow(kept[i])]

CustomerOfRow(row) ==
    [kundnr |-> row.c1,
     kund   |-> Strip(row.c2.text),
     summa  |-> clean_number(row.c4)]

parse_sales_customers(ws) ==
    LET kept == SelectSeq(ws, LAMBDA row :
                    ~row.c2.isNone /\ PassesGate(clean_number(row.c4)))
    IN  [i \in 1..Len(kept) |-> CustomerOfRow(kept[i])]

\* the v3 Sales loop (v3 576-582)
ArtOfRowV3(row) ==
    [artikelnr   |-> row.c1.text,
     artikelnamn |-> row.c2,
     summa       |-> clean_num(row.c3)]

sales_loop_v3(ws) ==
    LET kept == SelectSeq(ws, LAMBDA row :
                    ~row.c1.isNone /\ PassesGate(clean_num(row.c3)))
    IN  [i \in 1..Len(kept) |-> ArtOfRowV3(kept[i])]

\* the characters of the model in code-point order
CodeOrder ==
    <<" ", "%", ",", "-", ".", "/",
      "0", "1", "2", "3", "4", "5", "6", "7", "8", "9",
      "A", "B", "D", "E", "G", "K", "L", "M", "N", "P", "R", "S", "T", "U", "X",
      "a", "b", "c", "d", "e", "f", "g", "j", "k", "l", "m", "n", "o", "p", "r", "s", "t",
      "u", "v", "x",
      NBSP>>

CharCode(c) == CHOOSE i \in 1..Len(CodeOrder) : CodeOrder[i] = c

\* a < b on str
RECURSIVE TextLess(_, _)
TextLess(a, b) ==
    IF b = <<>> THEN FALSE
    ELSE IF a = <<>> THEN TRUE
    ELSE IF Head(a) # Head(b) THEN CharCode(Head(a)) < CharCode(Head(b))
    ELSE TextLess(Tail(a), Tail(b))

\* x < y on two net amounts of one type
SummaLess(x, y) ==
    IF x.tag = "float" THEN x.val < y.val ELSE TextLess(x.text, y.text)

\* some record carries a str net amount: sum() raises TypeError
HasStr(recs) == \E i \in 1..Len(recs) : recs[i].summa.tag = "str"

\* float and str net amounts side by side: sorted() raises TypeError
SortRaises(recs) ==
    \E i, j \in 1..Len(recs) : recs[i].summa.tag # recs[j].summa.tag

\* sum(r['summa'] for r in recs), all of them numbers
SumSumma(recs) == SumSeq([i \in 1..Len(recs) |-> recs[i].summa.val])

\* sorted(recs, key=lambda x: x['summa'], reverse=True), all keys of one type
SortedBySumma(recs) ==
    LET pos(i) == 1 + Cardinality({j \in 1..Len(recs) :
                        \/ SummaLess(recs[i].summa, recs[j].summa)
                        \/ (recs[j].summa = recs[i].summa /\ j < i)})
    IN  [k \in 1..Len(recs) |-> recs[CHOOSE i \in 1..Len(recs) : pos(i) = k]]

\* s[:20]
Top20(s) == SubSeq(s, 1, IF Len(s) < 20 THEN Len(s) ELSE 20)

\* str.lower() on the letters the model uses
LowerChar(c) ==
    CASE c = "A" -> "a" [] c = "B" -> "b" [] c = "K" -> "k"
      [] c = "E" -> "e" [] c = "U" -> "u" [] c = "R" -> "r"
      [] c = "S" -> "s" [] c = "D" -> "d" [] c = "G" -> "g"
      [] c = "P" -> "p" [] c = "N" -> "n" [] c = "X" -> "x"
      [] OTHER -> c

LowerText(s) == [i \in 1..Len(s) |-> LowerChar(s[i])]

\* master_articles: None, or the set load_master_articles returns
NoMaster == [isNone |-> TRUE, set |-> {}]
MasterSet(S) == [isNone |-> FALSE, set |-> S]

\* the master file of the Sales page: None when none was uploaded, or its
\* workbook
NoMasterFile == [isNone |-> TRUE, wb |-> [sheetnames |-> <<>>, sheets |-> <<>>]]
MasterFile(wb) == [isNone |-> FALSE, wb |-> wb]

\* the sheet load_master_articles reads: 'Försäljning per artikel'
MasterSheetName == "Forsaljning per artikel"

\* `if art:` on a cell value
Truthy(cell) == ~cell.isNone /\ cell.text # <<>>

\* load_master_articles (v2 663-674)
load_master_articles(wb) ==
    IF \E i \in 1..Len(wb.sheetnames) : wb.sheetnames[i] = MasterSheetName
    THEN LET ws == wb.sheets[MasterSheetName] IN
         {LowerText(Strip(ws[i].c1.text)) : i \in {j \in 1..Len(ws) : Truthy(ws[j].c1)}}
    ELSE {}

\* the membership test without lower()
IsNewArticleCaseSensitive(a, master) == a.artikelnr \notin master.set

\* a['artikelnr'].lower() not in master_articles (v2 500)
IsNewArticle(a, master) == LowerText(a.artikelnr) \notin master.set

NoStats ==
    [articles |-> 0, customers |-> 0, total |-> 0,
     top20_art_pct |-> Pct(0, 1), top20_cust_pct |-> Pct(0, 1),
     new_articles |-> <<>>, top20_articles |-> <<>>, top20_customers |-> <<>>]

Raised(e) == [error |-> e, stats |-> NoStats]
Returned(st) == [error |-> "none", stats |-> st]

\* create_sales_output_v2 (v2 447-660): the exception it raises, or its stats
create_sales_output_v2(arts_in, custs_in, master) ==
    IF HasStr(arts_in) \/ HasStr(custs_in) THEN Raised("TypeError")
    ELSE
    LET total_articles  == SumSumma(arts_in)
        total_customers == SumSumma(custs_in)
        top20_articles  == Top20(SortedBySumma(arts_in))
        top20_customers == Top20(SortedBySumma(custs_in))
        top20_art_sum   == SumSumma(top20_articles)
        top20_cust_sum  == SumSumma(top20_customers)
        new_articles    ==
            IF master.isNone THEN <<>>
            ELSE SelectSeq(arts_in, LAMBDA a : IsNewArticle(a, master))
    IN  IF total_articles = 0 \/ total_customers = 0 THEN Raised("ZeroDivisionError")
        ELSE Returned(
            [articles        |-> Len(arts_in),
             customers       |-> Len(custs_in),
             total           |-> total_articles,
             top20_art_pct   |-> IF total_articles > 0
                                 THEN Pct(top20_art_sum * 100, total_articles)
                                 ELSE Pct(0, 1),
             top20_cust_pct  |-> IF total_customers > 0
                                 THEN Pct(top20_cust_sum * 100, total_customers)
                                 ELSE Pct(0, 1),
             new_articles    |-> new_articles,
             top20_articles  |-> top20_articles,
             top20_customers |-> top20_customers])

\* candidate names of the Sales handlers (v2 1209-1210, v3 573)
ArticleNamesV2 == <<"Article", "Articles", "Artikel", "Sales">>
CompanyNamesV2 == <<"Company", "Customer", "Customers", "Kund", "Kunder">>
ArticleNamesV3 == <<"Article", "Articles", "Artikel">>

\* the sheets of the workbook create_sales_output_v2 builds (v2 466-628): the
\* last one only `if master_articles is not None`
sales_workbook(master) ==
    <<"Summary", "Top 20 Articles", "Top 20 Customers", "Articles", "Customers">>
        \o (IF master.isNone THEN <<>> ELSE <<"New Articles">>)

NoSalesResults ==
    [set |-> FALSE, stats |-> NoStats, workbook |-> <<>>, articles |-> <<>>,
     customers |-> <<>>]

NoSalesRes == [set |-> FALSE, arts |-> <<>>]

\* the sales workbooks of the model
KeyCells == {NoneCell, TextCell(<<"A", "1">>)}

SummaCells ==
    {NoneCell, TextCell(<<"0">>), TextCell(<<"2">>),
     TextCell(<<"a", "b", "c">>), TextCell(<<"1", "5", "%">>)}

CompanySummaCells == {TextCell(<<"0">>), TextCell(<<"2">>), TextCell(<<"a", "b", "c">>)}

\* quantity and margin cells: both numbers, or both text
QtyCells == {<<TextCell(<<"2">>), TextCell(<<"1">>)>>, <<TextCell(<<"x">>), TextCell(<<"x">>)>>}

ArticleRows ==
    {[c1 |-> k, c2 |-> TextCell(<<"B">>), c3 |-> s, c4 |-> NoneCell,
      c6 |-> q[1], c7 |-> q[2]] : k \in KeyCells, s \in SummaCells, q \in QtyCells}

CompanyRows ==
    {[c1 |-> TextCell(<<"7">>), c2 |-> k, c3 |-> TextCell(<<"x">>), c4 |-> s,
      c6 |-> NoneCell, c7 |-> NoneCell] :
        k \in {NoneCell, TextCell(<<"K", "1">>)}, s \in CompanySummaCells}

ArticleSheets == SeqsUpTo(ArticleRows, MaxRows)
CompanySheets == SeqsUpTo(CompanyRows, MaxRows)

Wb1(n, rows) == [sheetnames |-> <<n>>, sheets |-> [k \in {n} |-> rows]]

Wb2(n1, rows1, n2, rows2) ==
    [sheetnames |-> <<n1, n2>>,
     sheets |-> [k \in {n1, n2} |-> IF k = n1 THEN rows1 ELSE rows2]]

SalesWorkbooks ==
    {Wb2("Article", a, "Company", c) : a \in ArticleSheets, c \in CompanySheets}
        \cup {Wb2("Article", a, "Summary", <<>>) : a \in ArticleSheets}
        \cup {Wb1("Sales", a) : a \in ArticleSheets}
        \cup {Wb1("Sheet1", c) : c \in CompanySheets}
        \cup {Wb2("Sheet1", <<>>, "Summary", <<>>)}

\* the two master files of the Sales runs: none, and one that lists A1
MasterRow(cell) == [c1 |-> cell]

MasterFiles ==
    {NoMasterFile, MasterFile(Wb1(MasterSheetName, <<MasterRow(TextCell(<<"A", "1">>))>>))}

\* inputs of the new-article runs: article numbers and master entries that
\* differ in letter case and surrounding spaces
IdCells == {TextCell(<<"A", "1">>), TextCell(<<" ", "a", "1", " ">>), TextCell(<<"B", "2">>)}

IdRows ==
    {[c1 |-> k, c2 |-> TextCell(<<"B">>), c3 |-> TextCell(<<"2">>), c4 |-> NoneCell,
      c6 |-> TextCell(<<"2">>), c7 |-> TextCell(<<"1">>)] : k \in IdCells}

OneCustomerSheet ==
    <<[c1 |-> TextCell(<<"7">>), c2 |-> TextCell(<<"K", "1">>), c3 |-> TextCell(<<"x">>),
       c4 |-> TextCell(<<"2">>), c6 |-> NoneCell, c7 |-> NoneCell]>>

IdWorkbooks ==
    {Wb2("Article", a, "Company", OneCustomerSheet) : a \in SeqsUpTo(IdRows, MaxRows)}

MasterIdCells ==
    {NoneCell, TextCell(<<"A", "1">>), TextCell(<<" ", "a", "1">>), TextCell(<<"b", "2">>)}

IdMasterFiles ==
    {NoMasterFile, MasterFile(Wb1("Sheet1", <<MasterRow(TextCell(<<"A", "1">>))>>))}
        \cup {MasterFile(Wb1(MasterSheetName, [i \in 1..Len(r) |-> MasterRow(r[i])])) :
                r \in SeqsUpTo(MasterIdCells, MaxRows)}

(***************************************************************************)
(* v2 Intelligence: analyze_sales_intelligence (v2 1023-1062)              *)
(*                                                                         *)
(* A customer of parse_sales_master holds kund, ltm_now, ltm_prev and      *)
(* change = ltm_now - ltm_prev (v2 1013-1018); revenue is in whole kronor  *)
(* and may be negative.                                                    *)
(***************************************************************************)
IntelRevenues == {-30000, 0, 10000, 25000, 60000, 80000}

MasterCustomer(k, now, prev) ==
    [kund |-> k, ltm_now |-> now, ltm_prev |-> prev, change |-> now - prev]

MasterCustomers ==
    {MasterCustomer(k, n, p) : k \in Kunder, n \in IntelRevenues, p \in IntelRevenues}

\* s[:n]
Take(s, n) == SubSeq(s, 1, IF Len(s) < n THEN Len(s) ELSE n)

\* (part / total * 100) if total > 0 else 0
PctOfTotal(part, total) == IF total > 0 THEN Pct(part * 100, total) ELSE Pct(0, 1)

analyze_sales_intelligence(cs) ==
    LET total_now     == SumSeq([i \in 1..Len(cs) |-> cs[i].ltm_now])
        total_prev    == SumSeq([i \in 1..Len(cs) |-> cs[i].ltm_prev])
        total_change  == total_now - total_prev
        active        == SelectSeq(cs, LAMBDA c : c.ltm_now > 0)
        churned       == SelectSeq(cs, LAMBDA c : c.ltm_prev > 50000 /\ c.ltm_now = 0)
        declining     == SelectSeq(cs, LAMBDA c :
                            c.ltm_prev > c.ltm_now /\ c.ltm_now > 0 /\ c.change < -20000)
        growing       == SelectSeq(cs, LAMBDA c : c.change > 20000)
        new_customers == SelectSeq(cs, LAMBDA c : c.ltm_prev = 0 /\ c.ltm_now > 10000)
        sorted_cust   == SortDesc(active, [i \in 1..Len(active) |-> active[i].ltm_now])
        top10_rev     == SumSeq([i \in 1..Len(Take(sorted_cust, 10)) |-> sorted_cust[i].ltm_now])
        top20_rev     == SumSeq([i \in 1..Len(Take(sorted_cust, 20)) |-> sorted_cust[i].ltm_now])
    IN  [total_now       |-> total_now,
         total_prev      |-> total_prev,
         total_change    |-> total_change,
         pct_change      |-> PctOfTotal(total_change, total_prev),
         active          |-> active,
         churned         |-> SortDesc(churned, [i \in 1..Len(churned) |-> churned[i].ltm_prev]),
         declining       |-> SortAsc(declining, [i \in 1..Len(declining) |-> declining[i].change]),
         growing         |-> SortDesc(growing, [i \in 1..Len(growing) |-> growing[i].change]),
         new_customers   |-> SortDesc(new_customers,
                                [i \in 1..Len(new_customers) |-> new_customers[i].ltm_now]),
         churn_revenue   |-> SumSeq([i \in 1..Len(churned) |-> churned[i].ltm_prev]),
         decline_revenue |-> SumSeq([i \in 1..Len(declining) |-> Abs(declining[i].change)]),
         growth_revenue  |-> SumSeq([i \in 1..Len(growing) |-> growing[i].change]),
         new_revenue     |-> SumSeq([i \in 1..Len(new_customers) |-> new_customers[i].ltm_now]),
         top10_pct       |-> PctOfTotal(top10_rev, total_now),
         top20_pct       |-> PctOfTotal(top20_rev, total_now),
         top20           |-> Take(sorted_cust, 20)]

NoAnalysis == analyze_sales_intelligence(<<>>)

(***************************************************************************)
(* Order-book analyses: analyze_order_aging (v2 681-702),                  *)
(* analyze_customer_concentration (v2 705-720) and analyze_large_orders    *)
(* (v2 750-756)                                                            *)
(*                                                                         *)
(* The analyses read ordernr, orderdatum, kundnamn and belopp_sek of an    *)
(* order.  belopp_sek is in whole kronor here; a datetime is its day       *)
(* number, so that (today - orderdatum).days is the difference of the two. *)
(***************************************************************************)
BookOrder(id, date, kund, sek) ==
    [ordernr |-> id, orderdatum |-> date, kundnamn |-> kund, belopp_sek |-> sek]

AgingAlert(order, days_old) ==
    [ordernr    |-> order.ordernr,
     kundnamn   |-> order.kundnamn,
     orderdatum |-> order.orderdatum,
     days_old   |-> days_old,
     months_old |-> days_old \div 30,
     belopp_sek |-> order.belopp_sek]

\* the aging test with >= in place of >
IsAgingAtNinety(order, td) ==
    order.orderdatum.isDate /\ td - order.orderdatum.day >= 90

\* order['orderdatum'] is not None and days_old > 90
IsAging(order, td) ==
    order.orderdatum.isDate /\ td - order.orderdatum.day > 90

analyze_order_aging(os, td) ==
    LET old    == SelectSeq(os, LAMBDA o : IsAging(o, td))
        alerts == [i \in 1..Len(old) |-> AgingAlert(old[i], td - old[i].orderdatum.day)]
    IN  SortDesc(alerts, [i \in 1..Len(alerts) |-> alerts[i].days_old])

\* the filter with >= in place of >
analyze_large_ordersAtThreshold(os, th) ==
    LET big == SelectSeq(os, LAMBDA o : o.belopp_sek >= th)
    IN  SortDesc(big, [i \in 1..Len(big) |-> big[i].belopp_sek])

analyze_large_orders(os, th) ==
    LET big == SelectSeq(os, LAMBDA o : o.belopp_sek > th)
    IN  SortDesc(big, [i \in 1..Len(big) |-> big[i].belopp_sek])

\* the keys of customer_totals in insertion order: each customer name at its
\* first order
CustomerNames(os) ==
    LET first == {i \in 1..Len(os) : \A j \in 1..(i - 1) : os[j].kundnamn # os[i].kundnamn}
        picked == SelectSeq([i \in 1..Len(os) |-> [at |-> i, name |-> os[i].kundnamn]],
                            LAMBDA e : e.at \in first)
    IN  [i \in 1..Len(picked) |-> picked[i].name]

\* customer_totals[name]
CustomerTotal(os, name) ==
    LET mine == SelectSeq(os, LAMBDA o : o.kundnamn = name)
    IN  SumSeq([i \in 1..Len(mine) |-> mine[i].belopp_sek])

\* the ranking cut to its first three entries
analyze_customer_concentrationTopThree(os) ==
    LET names  == CustomerNames(os)
        items  == [i \in 1..Len(names) |-> [name |-> names[i], amt |-> CustomerTotal(os, names[i])]]
        total  == SumSeq([i \in 1..Len(items) |-> items[i].amt])
        sorted_customers == SortDesc(items, [i \in 1..Len(items) |-> items[i].amt])
        first3 == Take(sorted_customers, 3)
    IN  IF total = 0 THEN [top_5 |-> <<>>, top_3_pct |-> Pct(0, 1), top_1_pct |-> Pct(0, 1)]
        ELSE [top_5 |-> [i \in 1..Len(first3) |->
                            [name |-> first3[i].name, amt |-> first3[i].amt,
                             pct |-> Pct(first3[i].amt * 100, total)]],
              top_3_pct |-> Pct(SumSeq([i \in 1..Len(first3) |-> first3[i].amt]) * 100, total),
              top_1_pct |-> Pct(sorted_customers[1].amt * 100, total)]

analyze_customer_concentration(os) ==
    LET names  == CustomerNames(os)
        items  == [i \in 1..Len(names) |-> [name |-> names[i], amt |-> CustomerTotal(os, names[i])]]
        total  == SumSeq([i \in 1..Len(items) |-> items[i].amt])
        sorted_customers == SortDesc(items, [i \in 1..Len(items) |-> items[i].amt])
        first5 == Take(sorted_customers, 5)
        first3 == Take(sorted_customers, 3)
    IN  IF total = 0 THEN [top_5 |-> <<>>, top_3_pct |-> Pct(0, 1), top_1_pct |-> Pct(0, 1)]
        ELSE [top_5 |-> [i \in 1..Len(first5) |->
                            [name |-> first5[i].name, amt |-> first5[i].amt,
                             pct |-> Pct(first5[i].amt * 100, total)]],
              top_3_pct |-> Pct(SumSeq([i \in 1..Len(first3) |-> first3[i].amt]) * 100, total),
              top_1_pct |-> Pct(sorted_customers[1].amt * 100, total)]

NoConcentration == [top_5 |-> <<>>, top_3_pct |-> Pct(0, 1), top_1_pct |-> Pct(0, 1)]

\* the reference day of the runs, and the default threshold (v2 750)
Today == 1000
DefaultThreshold == 100000

\* the order lists of the model: every short list over orders around the
\* aging and threshold boundaries, and lists of six customers (one of them
\* possibly with a second order) with small amounts
BookDates ==
    {NoDateCell, DateCell(Today - 90), DateCell(Today - 91), DateCell(Today - 200)}

BookAmounts == {0, DefaultThreshold, DefaultThreshold + 1}

ShortBookOrders ==
    {BookOrder("A", d, k, a) : d \in BookDates, k \in {"K1", "K2"}, a \in BookAmounts}

SixCustomers == <<"K1", "K2", "K3", "K4", "K5", "K6">>

SixCustomerBooks ==
    {[i \in 1..6 |-> BookOrder("A", NoDateCell, SixCustomers[i], f[i])] :
        f \in [1..6 -> {1, 2, 3}]}

LongBooks ==
    SixCustomerBooks
        \cup {Append(b, BookOrder("B", DateCell(Today - 91), k, 2)) :
                b \in SixCustomerBooks, k \in {"K1", "K6"}}

Books == SeqsUpTo(ShortBookOrders, MaxOrders) \cup LongBooks

Thresholds == {DefaultThreshold, 2}

(***************************************************************************)
(* The Order Book pages: create_order_book_output (v2 763-968), the v2     *)
(* Process handler and result column (v2 1103-1185) and the v3 ones        *)
(* (v3 540-562)                                                            *)
(*                                                                         *)
(* An uploaded file is readable or not (openpyxl.load_workbook raises on   *)
(* a file that is no workbook); a readable one is its sheet names and, by  *)
(* name, the rows 2..max_row of each sheet.  An output workbook is the     *)
(* list of its sheet titles and the sections of its Summary sheet.         *)
(***************************************************************************)
\* a date cell that holds no datetime: a text, or a number
DateText(t) == [isDate |-> FALSE, day |-> 0, text |-> t]
DateNumber(n) == [isDate |-> FALSE, day |-> 0, number |-> n]

\* wow_data: None, or the dict of analyze_week_over_week
WowNone == [isNone |-> TRUE, data |-> NoWow]
WowSome(w) == [isNone |-> FALSE, data |-> w]

\* the uploaded files: this week's, and last week's (None when none was
\* uploaded)
EmptyWorkbook == [sheetnames |-> <<>>, sheets |-> <<>>]
Unreadable == [readable |-> FALSE, wb |-> EmptyWorkbook]
Readable(wb) == [readable |-> TRUE, wb |-> wb]
NoPreviousFile == [isNone |-> TRUE, readable |-> FALSE, wb |-> EmptyWorkbook]
PreviousFile(f) == [isNone |-> FALSE, readable |-> f.readable, wb |-> f.wb]

\* the week-over-week section of the Summary sheet (v2 790-804)
SummaryWow(wow) ==
    [new_count    |-> wow.data.new.count,    new_total    |-> wow.data.new.total,
     closed_count |-> wow.data.closed.count, closed_total |-> wow.data.closed.total,
     net_count    |-> wow.data.net_count,    net_amount   |-> wow.data.net_amount]

\* create_order_book_output with the week-over-week parts written whatever
\* wow_data is
create_order_book_outputAlwaysWow(os, fx, wow) ==
    [sheetnames |-> <<"Summary", "Week-over-Week", "Warnings", "Order Book",
                      "By Delivery Month">>,
     open_orders |-> Len(os),
     total_value |-> TotalSek(os),
     sections    |-> <<"OVERVIEW", "WEEK-OVER-WEEK", "ALERTS">>,
     week_over_week |-> <<SummaryWow(wow)>>,
     aging |-> analyze_order_aging(os, Today),
     large |-> analyze_large_orders(os, DefaultThreshold * Unit)]

\* create_order_book_output (v2 763-968): `if wow_data:` guards the section of
\* the Summary sheet and the Week-over-Week sheet
create_order_book_output(os, fx, wow) ==
    [sheetnames |-> <<"Summary">>
                        \o (IF wow.isNone THEN <<>> ELSE <<"Week-over-Week">>)
                        \o <<"Warnings", "Order Book", "By Delivery Month">>,
     open_orders |-> Len(os),
     total_value |-> TotalSek(os),
     sections    |-> <<"OVERVIEW">>
                        \o (IF wow.isNone THEN <<>> ELSE <<"WEEK-OVER-WEEK">>)
                        \o <<"ALERTS">>,
     week_over_week |-> IF wow.isNone THEN <<>> ELSE <<SummaryWow(wow)>>,
     aging |-> analyze_order_aging(os, Today),
     large |-> analyze_large_orders(os, DefaultThreshold * Unit)]

NoWorkbook ==
    [sheetnames |-> <<>>, open_orders |-> 0, total_value |-> 0, sections |-> <<>>,
     week_over_week |-> <<>>, aging |-> <<>>, large |-> <<>>]

\* st.session_state['ob_results'] (v2) and st.session_state['ob_res'] (v3)
NoObResults == [set |-> FALSE, orders |-> <<>>, wow_data |-> WowNone, workbook |-> NoWorkbook]
NoObRes == [set |-> FALSE, orders |-> <<>>]

\* the inner try block of the v2 handler (v2 1117-1126): wow_data stays None
\* without a previous file, when load_workbook raises (except Exception: pass)
\* and when find_sheet returns None
wow_data_of_run(current, previous, fx) ==
    IF previous.isNone \/ ~previous.readable THEN WowNone
    ELSE LET ws_prev == find_sheet(previous.wb.sheetnames, OrderBookNamesV2) IN
         IF ~ws_prev.found THEN WowNone
         ELSE WowSome(analyze_week_over_week(
                  current, parse_order_book(previous.wb.sheets[ws_prev.name], fx)))

\* what one click on Process does in the v2 page (v2 1104-1139): the error
\* reported, the sheet names the message lists, and the session afterwards
order_book_process(this_week, last_week, fx, session) ==
    IF ~this_week.readable
    THEN [error |-> "Error", error_sheets |-> <<>>, results |-> session]
    ELSE LET ws == find_sheet(this_week.wb.sheetnames, OrderBookNamesV2) IN
         IF ~ws.found
         THEN [error |-> "no_order_book_sheet",
               error_sheets |-> this_week.wb.sheetnames,
               results |-> session]
         ELSE LET parsed == parse_order_book(this_week.wb.sheets[ws.name], fx)
                  wow    == wow_data_of_run(parsed, last_week, fx)
              IN  [error |-> "none", error_sheets |-> <<>>,
                   results |-> [set |-> TRUE, orders |-> parsed, wow_data |-> wow,
                                workbook |-> create_order_book_output(parsed, fx, wow)]]

\* the v3 handler (v3 540-555); its message is the fixed text 'Could not find
\* order book sheet'
order_book_process_v3(file, fx, session) ==
    IF ~file.readable
    THEN [error |-> "Error", error_sheets |-> <<>>, res |-> session]
    ELSE LET ws == find_sheet_v3(file.wb.sheetnames, OrderBookNamesV3) IN
         IF ~ws.found
         THEN [error |-> "no_order_book_sheet", error_sheets |-> <<>>, res |-> session]
         ELSE [error |-> "none", error_sheets |-> <<>>,
               res |-> [set |-> TRUE,
                        orders |-> order_book_loop_v3(file.wb.sheets[ws.name], fx)]]

\* the result column of the v2 page (v2 1141-1170): shown whenever the session
\* holds ob_results
order_book_page(session) ==
    [banner     |-> session.set,
     orders     |-> Len(session.orders),
     total_sek  |-> TotalSek(session.orders),
     vs_last_week |-> IF session.wow_data.isNone THEN <<>>
                      ELSE <<session.wow_data.data.net_amount>>,
     aging      |-> analyze_order_aging(session.orders, Today),
     large      |-> analyze_large_orders(session.orders, DefaultThreshold * Unit)]

\* the result column of the v3 page (v3 556-562)
order_book_page_v3(session) ==
    [banner    |-> session.set,
     orders    |-> Len(session.orders),
     total_sek |-> TotalSek(session.orders)]

\* the order-book files of the page runs: rows dated 200 days back, or with a
\* text, a number or nothing in the date cell; amounts that parse and one
\* that does not
PageDateCells ==
    {DateCell(Today - 200), DateText(<<"2", "0", "2", "4">>), DateNumber(45000), NoDateCell}

PageRow(id, date, amount) ==
    [c1 |-> id, c2 |-> date, c3 |-> "K1", c6 |-> TextCell(amount)]

PageSheets ==
    {<<>>}
        \cup {<<PageRow("A", d, <<"1", "0", "0", " ", "E", "U", "R">>)>> : d \in PageDateCells}
        \cup {<<PageRow("A", DateCell(Today - 200), <<"1", ",", "5", "0">>),
                PageRow("B", d, <<"1", "0", "0", " ", "E", "U", "R">>)>> :
                    d \in {DateText(<<"2", "0", "2", "4">>), NoDateCell}}
        \cup {<<PageRow("A", NoDateCell, <<"x">>)>>}

PageFiles ==
    {Unreadable}
        \cup {Readable(Wb1("Order book", sh)) : sh \in PageSheets}
        \cup {Readable(Wb1("Blad1", <<PageRow("A", DateNumber(45000), <<"1", ",", "5", "0">>)>>)),
              Readable(Wb2("Blad1", <<>>, "Summary", <<>>)),
              Readable(Wb2("Orders", <<>>, "Summary", <<>>))}

PreviousFiles ==
    {NoPreviousFile, PreviousFile(Unreadable),
     PreviousFile(Readable(Wb2("Blad1", <<>>, "Summary", <<>>))),
     PreviousFile(Readable(Wb1("Order book", <<>>))),
     PreviousFile(Readable(Wb1("Order book",
         <<PageRow("A", NoDateCell, <<"1", ",", "5", "0">>),
           PageRow("C", DateText(<<"2", "0", "2", "4">>), <<"1", ",", "5", "0">>)>>)))}

(***************************************************************************)
(* Period selection of the v3 Intelligence handler (v3 604-614)            *)
(*                                                                         *)
(* An LTM label is 'LTM <year>-<month abbreviation>' with the Swedish      *)
(* abbreviations of generate_html's month_map (v3 343-344); here it is its *)
(* year and month number, and its text is what sorted() compares.          *)
(***************************************************************************)
MaxPeriods == 14   \* most LTM columns in the master file

MonthAbbr ==
    <<<<"j", "a", "n">>, <<"f", "e", "b">>, <<"m", "a", "r">>, <<"a", "p", "r">>,
      <<"m", "a", "j">>, <<"j", "u", "n">>, <<"j", "u", "l">>, <<"a", "u", "g">>,
      <<"s", "e", "p">>, <<"o", "k", "t">>, <<"n", "o", "v">>, <<"d", "e", "c">>>>

Label(y, mo) == [year |-> y, month |-> mo]

DigitChar(n) == <<"0", "1", "2", "3", "4", "5", "6", "7", "8", "9">>[n + 1]

YearText(y) ==
    <<DigitChar(y \div 1000), DigitChar((y \div 100) % 10), DigitChar((y \div 10) % 10),
      DigitChar(y % 10)>>

\* the header text of the label
LabelText(l) == <<"L", "T", "M", " ">> \o YearText(l.year) \o <<"-">> \o MonthAbbr[l.month]

\* sorted(keys): ascending by str comparison
SortedLabels(keys) ==
    LET pos(l) == 1 + Cardinality({k \in keys : TextLess(LabelText(k), LabelText(l))})
    IN  [n \in 1..Cardinality(keys) |-> CHOOSE l \in keys : pos(l) = n]

\* the labels in order of year and month
SortedByDate(keys) ==
    LET pos(l) == 1 + Cardinality({k \in keys :
                        k.year < l.year \/ (k.year = l.year /\ k.month < l.month)})
    IN  [n \in 1..Cardinality(keys) |-> CHOOSE l \in keys : pos(l) = n]

\* None, or a label
NoLabel == [isNone |-> TRUE, label |-> Label(0, 1)]
SomeLabel(l) == [isNone |-> FALSE, label |-> l]

\* curr = ltms[-1] if ltms else None
\* prev = ltms[-13] if len(ltms) > 12 else ltms[0] if ltms else None
pick_periods(ltms) ==
    [curr |-> IF ltms # <<>> THEN SomeLabel(ltms[Len(ltms)]) ELSE NoLabel,
     prev |-> IF Len(ltms) > 12 THEN SomeLabel(ltms[Len(ltms) - 12])
              ELSE IF ltms # <<>> THEN SomeLabel(ltms[1]) ELSE NoLabel]

NoIntelLtm == [set |-> FALSE, curr |-> NoLabel, prev |-> NoLabel]

\* the month number n counted from January of year y
MonthFrom(y, n) == Label(y + (n \div 12), (n % 12) + 1)

\* the label sets of the model: every run of up to MaxPeriods consecutive
\* months starting in 2023, and the two December labels
LabelSets ==
    {{MonthFrom(2023, k) : k \in first..(first + n - 1)} : first \in 0..11, n \in 0..MaxPeriods}
        \cup {{Label(2023, 12), Label(2024, 12)}}

(***************************************************************************)
(* The top-20 ranking of create_sales_output_v2 (v2 451-462, 649-657) and  *)
(* the pie summary of the Sales page (v2 1256-1264) in float arithmetic.   *)
(* A net amount is a Python float; here a float carries MantissaBits       *)
(* significant bits (53 in CPython) and every sum or difference is rounded *)
(* to nearest, ties to even.  Amounts are counted in whole units.          *)
(***************************************************************************)
MantissaBits == 4  \* significant bits of a float

RECURSIVE Pow2(_)
Pow2(n) == IF n = 0 THEN 1 ELSE 2 * Pow2(n - 1)

\* the binary exponent of the last kept bit of the magnitude m
LastBit(m) ==
    CHOOSE e \in 0..20 :
        /\ m < Pow2(MantissaBits + e)
        /\ (e = 0 \/ m >= Pow2(MantissaBits + e - 1))

\* the magnitude m rounded to MantissaBits significant bits, ties to even
RoundBits(m) ==
    LET e    == LastBit(m)
        q    == m \div Pow2(e)
        r    == m % Pow2(e)
        up   == 2 * r > Pow2(e) \/ (2 * r = Pow2(e) /\ q % 2 = 1)
    IN  (IF up THEN q + 1 ELSE q) * Pow2(e)

FloatOf(z) == IF z < 0 THEN 0 - RoundBits(0 - z) ELSE RoundBits(z)

FloatAdd(x, y) == FloatOf(x + y)
FloatSub(x, y) == FloatOf(x - y)

\* sum(xs): from 0, left to right
RECURSIVE FloatSum(_)
FloatSum(xs) ==
    IF xs = <<>> THEN 0
    ELSE FloatAdd(FloatSum(SubSeq(xs, 1, Len(xs) - 1)), xs[Len(xs)])

SummaVals(recs) == [i \in 1..Len(recs) |-> recs[i].summa.val]

NoPieStats == [error |-> "none", total |-> 0, top20_articles |-> <<>>]

\* create_sales_output_v2 on numeric articles and a customer list of non-zero
\* total: stats['total'] and stats['top20_articles'], or the ZeroDivisionError
\* of the Summary sheet (v2 491)
sales_stats(arts_in) ==
    LET total_articles == FloatSum(SummaVals(arts_in))
        top20_articles == Top20(SortedBySumma(arts_in))
    IN  IF total_articles = 0
        THEN [error |-> "ZeroDivisionError", total |-> 0, top20_articles |-> <<>>]
        ELSE [error |-> "none", total |-> total_articles,
              top20_articles |-> top20_articles]

NoPie == [top20 |-> 0, rest |-> 0]

\* the values of the article pie (v2 1257-1262)
pie_values(st) ==
    LET top20_art == st.top20_articles
        rest_art  == FloatSub(st.total, FloatSum(SummaVals(top20_art)))
    IN  [top20 |-> FloatSum(SummaVals(top20_art)), rest |-> rest_art]

\* article records of the ranked lists: n records of net amount a up to
\* position k and b after it, with the amount c at position j
SoldArticle(v) ==
    [artikelnr |-> <<"A">>, artikelnamn |-> TextCell(<<"B">>), summa |-> NumFloat(v),
     antal_ut |-> NumFloat(0), tb |-> NumNone]

SoldList(n, a, b, k, c, j) ==
    [i \in 1..n |-> SoldArticle(IF i = j THEN c ELSE IF i <= k THEN a ELSE b)]

SoldLengths == {0, 1, 2, 19, 20, 21, 22}

SoldLists ==
    {SoldList(n, a, b, k, c, j) :
        n \in SoldLengths, a \in {1, 2, 3}, b \in {1, 2, 3}, k \in {0, 10},
        c \in {-24, -9, 7}, j \in {0, 1, 11, 21}}

(***************************************************************************)
(* Inputs of the parser runs                                               *)
(***************************************************************************)
BodyChars == {"0", "1", ",", ".", " ", NBSP}

Prefixes == {<<>>, <<"-">>}

Suffixes ==
    {<<>>, <<"E", "U", "R">>, <<"e", "u", "r">>, <<"%">>, <<"x">>,
     <<"n", "/", "a">>, NoneText, <<"x", "E", "U", "R">>, <<"S", "E", KELVIN>>}

CellTexts ==
    {p \o b \o s : p \in Prefixes, b \in SeqsUpTo(BodyChars, MaxLen), s \in Suffixes}

\* the worked examples of the parser's documentation, longer than MaxLen
Ex3800_50 == <<"3", " ", "8", "0", "0", ",", "5", "0">>
Ex3800_50_EUR == <<"3", ".", "8", "0", "0", ",", "5", "0", " ", "E", "U", "R">>
Ex5211_00 == <<"5", ",", "2", "1", "1", ".", "0", "0">>
Ex15Pct == <<"1", "5", "%">>

ExampleTexts == {Ex3800_50, Ex3800_50_EUR, Ex5211_00, Ex15Pct}

Cells == {NoneCell} \cup {TextCell(t) : t \in CellTexts \cup ExampleTexts}

(***************************************************************************)
(* States outside a run                                                    *)
(***************************************************************************)
IdleParse ==
    /\ raw_value = NoneCell /\ amount_res = AmountNone
    /\ number_res = NumNone /\ number_res3 = NumNone

IdleSheet ==
    /\ sheetnames = <<>>
    /\ possible_names = <<>>
    /\ sheet_res = NoSheet
    /\ sheet_res3 = NoSheet

NoCohorts == [churned |-> <<>>, declining |-> <<>>, growing |-> <<>>, new |-> <<>>]

NoBridge ==
    [total_ltm |-> 0, prev_ltm_val |-> 0, churn_loss |-> 0, decline_loss |-> 0,
     growth_gain |-> 0, new_gain |-> 0]

IdleCohort ==
    /\ data = MasterData(<<>>)
    /\ curr_ltm = "" /\ prev_ltm = ""
    /\ cohorts = NoCohorts
    /\ bridge = NoBridge

IdleOrders ==
    /\ ws_raw = <<>>
    /\ fx_rates = FxDefault
    /\ orders = <<>>
    /\ orders3 = <<>>

IdleWow ==
    /\ current_orders = <<>>
    /\ previous_orders = <<>>
    /\ wow_data = NoWow

IdleIntel ==
    /\ master_customers = <<>>
    /\ analysis = NoAnalysis

IdleAnalytics ==
    /\ book_orders = <<>>
    /\ today = Today
    /\ threshold = DefaultThreshold
    /\ aging = <<>>
    /\ large = <<>>
    /\ concentration = NoConcentration

IdleTop20 ==
    /\ sold_articles = <<>>
    /\ pie_stats = NoPieStats
    /\ pie_art = NoPie

IdleBook ==
    /\ current_file = Unreadable
    /\ previous_file = NoPreviousFile
    /\ ob_results = NoObResults
    /\ ob_error = "none" /\ ob_error_sheets = <<>>
    /\ file3 = Unreadable
    /\ ob_res = NoObRes
    /\ ob_error3 = "none" /\ ob_error_sheets3 = <<>>

IdlePeriods ==
    /\ ltm_keys = {}
    /\ intel_ltm = NoIntelLtm
    /\ intel_error3 = "none"

IdleSales ==
    /\ wb_raw = Wb1("Sheet1", <<>>)
    /\ master_file = NoMasterFile
    /\ master_articles = NoMaster
    /\ articles = <<>> /\ customers = <<>>
    /\ sales_results = NoSalesResults
    /\ sales_error = "none" /\ sales_error_sheets = <<>>
    /\ arts = <<>>
    /\ sales_res = NoSalesRes
    /\ sales_error3 = "none" /\ sales_error_sheets3 = <<>>
    /\ sales_page3 = "empty"

(***************************************************************************)
(* Parser runs: each parser applied to one cell (SpecParse)                *)
(***************************************************************************)
InitParse ==
    /\ pc = "parse"
    /\ raw_value \in Cells
    /\ amount_res = AmountNone
    /\ number_res = NumNone
    /\ number_res3 = NumNone
    /\ IdleSheet
    /\ IdleCohort
    /\ IdleOrders
    /\ IdleWow
    /\ IdleSales /\ IdleIntel /\ IdleAnalytics
    /\ IdleTop20 /\ IdleBook /\ IdlePeriods

CleanAmountWithCurrency ==
    /\ pc = "parse"
    /\ amount_res' = clean_amount_with_currency(raw_value)
    /\ pc' = "amount_done"
    /\ UNCHANGED <<raw_value, number_res, number_res3, sheetVars, cohortVars, orderVars, wowVars, salesVars, intelVars, analyticsVars, top20Vars, bookVars, periodVars>>

CleanNumber ==
    /\ pc = "amount_done"
    /\ number_res' = clean_number(raw_value)
    /\ pc' = "parsed"
    /\ UNCHANGED <<raw_value, amount_res, number_res3, sheetVars, cohortVars, orderVars, wowVars, salesVars, intelVars, analyticsVars, top20Vars, bookVars, periodVars>>

\* clean_num of the v3 app on the same cell
CleanNum ==
    /\ pc = "parsed"
    /\ number_res3' = clean_num(raw_value)
    /\ pc' = "parsed_v3"
    /\ UNCHANGED <<raw_value, amount_res, number_res, sheetVars, cohortVars, orderVars, wowVars, salesVars, intelVars, analyticsVars, top20Vars, bookVars, periodVars>>

NextParse == CleanAmountWithCurrency \/ CleanNumber \/ CleanNum

SpecParse == InitParse /\ [][NextParse]_vars

(***************************************************************************)
(* Sheet resolution runs (SpecSheet)                                       *)
(***************************************************************************)
InitSheet ==
    /\ pc = "resolve"
    /\ sheetnames \in Workbooks
    /\ possible_names \in {OrderBookNamesV2, OrderBookNamesV3, ExampleNames}
    /\ sheet_res = NoSheet
    /\ sheet_res3 = NoSheet
    /\ IdleParse
    /\ IdleCohort
    /\ IdleOrders
    /\ IdleWow
    /\ IdleSales /\ IdleIntel /\ IdleAnalytics
    /\ IdleTop20 /\ IdleBook /\ IdlePeriods

FindSheet ==
    /\ pc = "resolve"
    /\ sheet_res' = find_sheet(sheetnames, possible_names)
    /\ pc' = "resolved_v2"
    /\ UNCHANGED <<sheetnames, possible_names, sheet_res3, parseVars, cohortVars, orderVars, wowVars, salesVars, intelVars, analyticsVars, top20Vars, bookVars, periodVars>>

FindSheetV3 ==
    /\ pc = "resolved_v2"
    /\ sheet_res3' = find_sheet_v3(sheetnames, possible_names)
    /\ pc' = "resolved"
    /\ UNCHANGED <<sheetnames, possible_names, sheet_res, parseVars, cohortVars, orderVars, wowVars, salesVars, intelVars, analyticsVars, top20Vars, bookVars, periodVars>>

NextSheet == FindSheet \/ FindSheetV3

SpecSheet == InitSheet /\ [][NextSheet]_vars

(***************************************************************************)
(* Master-file runs: analyze_cohorts and generate_html (SpecCohort)        *)
(***************************************************************************)
\* the state after parse_master; the current period is the latest label, the
\* previous one an earlier label or, with a single label, the same one
\* (v3 604-606)
InitCohort ==
    /\ pc = "master"
    /\ \E cs \in SeqsUpTo(CustomerRecords, MaxCust) : data = MasterData(cs)
    /\ curr_ltm = "LTM 2024-dec"
    /\ prev_ltm \in PeriodLabels
    /\ cohorts = NoCohorts
    /\ bridge = NoBridge
    /\ IdleParse
    /\ IdleSheet
    /\ IdleOrders
    /\ IdleWow
    /\ IdleSales /\ IdleIntel /\ IdleAnalytics
    /\ IdleTop20 /\ IdleBook /\ IdlePeriods

AnalyzeCohorts ==
    /\ pc = "master"
    /\ cohorts' = analyze_cohorts(data, curr_ltm, prev_ltm)
    /\ pc' = "cohorts"
    /\ UNCHANGED <<data, curr_ltm, prev_ltm, bridge, parseVars, sheetVars, orderVars, wowVars, salesVars, intelVars, analyticsVars, top20Vars, bookVars, periodVars>>

GenerateHtml ==
    /\ pc = "cohorts"
    /\ bridge' = generate_html(data, curr_ltm, prev_ltm)
    /\ pc' = "html"
    /\ UNCHANGED <<data, curr_ltm, prev_ltm, cohorts, parseVars, sheetVars, orderVars, wowVars, salesVars, intelVars, analyticsVars, top20Vars, bookVars, periodVars>>

NextCohort == AnalyzeCohorts \/ GenerateHtml

SpecCohort == InitCohort /\ [][NextCohort]_vars

(***************************************************************************)
(* Order-book extraction runs (SpecOrders)                                 *)
(***************************************************************************)
InitOrders ==
    /\ pc = "sheet"
    /\ ws_raw \in SeqsUpTo(OrderRows, MaxRows)
    /\ fx_rates \in FxTables
    /\ orders = <<>>
    /\ orders3 = <<>>
    /\ IdleParse /\ IdleSheet /\ IdleCohort /\ IdleWow /\ IdleSales /\ IdleIntel /\ IdleAnalytics
    /\ IdleTop20 /\ IdleBook /\ IdlePeriods

ParseOrderBook ==
    /\ pc = "sheet"
    /\ orders' = parse_order_book(ws_raw, fx_rates)
    /\ pc' = "orders_v2"
    /\ UNCHANGED <<ws_raw, fx_rates, orders3, parseVars, sheetVars, cohortVars, wowVars, salesVars, intelVars, analyticsVars, top20Vars, bookVars, periodVars>>

\* the v3 page always builds the table with all four currencies (v3 537)
OrderBookLoopV3 ==
    /\ pc = "orders_v2"
    /\ DOMAIN fx_rates = DOMAIN FxDefault
    /\ orders3' = order_book_loop_v3(ws_raw, fx_rates)
    /\ pc' = "orders"
    /\ UNCHANGED <<ws_raw, fx_rates, orders, parseVars, sheetVars, cohortVars, wowVars, salesVars, intelVars, analyticsVars, top20Vars, bookVars, periodVars>>

NextOrders == ParseOrderBook \/ OrderBookLoopV3

SpecOrders == InitOrders /\ [][NextOrders]_vars

(***************************************************************************)
(* Week-over-week runs (SpecWow)                                           *)
(***************************************************************************)
InitWow ==
    /\ pc = "lists"
    /\ \E pair \in WowInputs :
          current_orders = pair[1] /\ previous_orders = pair[2]
    /\ wow_data = NoWow
    /\ IdleParse /\ IdleSheet /\ IdleCohort /\ IdleOrders /\ IdleSales /\ IdleIntel /\ IdleAnalytics
    /\ IdleTop20 /\ IdleBook /\ IdlePeriods

AnalyzeWeekOverWeek ==
    /\ pc = "lists"
    /\ wow_data' = analyze_week_over_week(current_orders, previous_orders)
    /\ pc' = "wow"
    /\ UNCHANGED <<current_orders, previous_orders, parseVars, sheetVars, cohortVars, orderVars, salesVars, intelVars, analyticsVars, top20Vars, bookVars, periodVars>>

NextWow == AnalyzeWeekOverWeek

SpecWow == InitWow /\ [][NextWow]_vars

(***************************************************************************)
(* Sales runs: the Process handlers of both pages on one workbook          *)
(* (SpecSales)                                                             *)
(***************************************************************************)
InitSales ==
    /\ pc = "sales_upload"
    /\ wb_raw \in SalesWorkbooks
    /\ master_file \in MasterFiles
    /\ master_articles = NoMaster
    /\ articles = <<>> /\ customers = <<>>
    /\ sales_results = NoSalesResults
    /\ sales_error = "none" /\ sales_error_sheets = <<>>
    /\ arts = <<>>
    /\ sales_res = NoSalesRes
    /\ sales_error3 = "none" /\ sales_error_sheets3 = <<>>
    /\ sales_page3 = "empty"
    /\ IdleParse /\ IdleSheet /\ IdleCohort /\ IdleOrders /\ IdleWow
    /\ IdleIntel /\ IdleAnalytics
    /\ IdleTop20 /\ IdleBook /\ IdlePeriods

\* the v2 Process handler (v2 1202-1233): an exception raised anywhere in the
\* try block is reported with st.error and the session keeps what it held
SalesProcess ==
    /\ pc = "sales_upload"
    /\ LET ws_article == find_sheet(wb_raw.sheetnames, ArticleNamesV2)
           ws_company == find_sheet(wb_raw.sheetnames, CompanyNamesV2)
       IN  IF ~ws_article.found
           THEN /\ sales_error' = "no_article_sheet"
                /\ sales_error_sheets' = wb_raw.sheetnames
                /\ UNCHANGED <<articles, customers, sales_results, master_articles>>
           ELSE LET parsed_articles  == parse_sales_articles(wb_raw.sheets[ws_article.name])
                    parsed_customers == IF ws_company.found
                                        THEN parse_sales_customers(wb_raw.sheets[ws_company.name])
                                        ELSE <<>>
                    loaded == IF master_file.isNone THEN NoMaster
                              ELSE MasterSet(load_master_articles(master_file.wb))
                    out == create_sales_output_v2(parsed_articles, parsed_customers,
                                                  loaded)
                IN  /\ articles' = parsed_articles
                    /\ master_articles' = loaded
                    /\ customers' = parsed_customers
                    /\ sales_error' = out.error
                    /\ sales_error_sheets' = <<>>
                    /\ sales_results' =
                          IF out.error = "none"
                          THEN [set |-> TRUE, stats |-> out.stats,
                                workbook |-> sales_workbook(loaded),
                                articles |-> parsed_articles,
                                customers |-> parsed_customers]
                          ELSE sales_results
    /\ pc' = "sales_v2"
    /\ UNCHANGED <<salesIn, salesV3, parseVars, sheetVars, cohortVars, orderVars, wowVars, intelVars, analyticsVars, top20Vars, bookVars, periodVars>>

\* the v3 Process handler (v3 569-584)
SalesProcessV3 ==
    /\ pc = "sales_v2"
    /\ LET ws == find_sheet_v3(wb_raw.sheetnames, ArticleNamesV3)
       IN  IF ~ws.found
           THEN /\ sales_error3' = "no_article_sheet"
                /\ sales_error_sheets3' = <<>>
                /\ UNCHANGED <<arts, sales_res>>
           ELSE LET collected == sales_loop_v3(wb_raw.sheets[ws.name])
                IN  /\ arts' = collected
                    /\ sales_error_sheets3' = <<>>
                    /\ IF SortRaises(collected)
                       THEN /\ sales_error3' = "TypeError"
                            /\ UNCHANGED sales_res
                       ELSE /\ sales_error3' = "none"
                            /\ sales_res' = [set |-> TRUE, arts |-> SortedBySumma(collected)]
    /\ pc' = "sales_v3"
    /\ UNCHANGED <<salesIn, salesV2, sales_page3, parseVars, sheetVars, cohortVars, orderVars, wowVars, intelVars, analyticsVars, top20Vars, bookVars, periodVars>>

\* the v3 result column (v3 586-593): sum() over the stored records, outside
\* any try block
SalesPageV3 ==
    /\ pc = "sales_v3"
    /\ sales_page3' = IF ~sales_res.set THEN "empty"
                      ELSE IF HasStr(sales_res.arts) THEN "TypeError"
                      ELSE "shown"
    /\ pc' = "sales_page"
    /\ UNCHANGED <<salesIn, salesV2, arts, sales_res, sales_error3, sales_error_sheets3, parseVars, sheetVars, cohortVars, orderVars, wowVars, intelVars, analyticsVars, top20Vars, bookVars, periodVars>>

NextSales == SalesProcess \/ SalesProcessV3 \/ SalesPageV3

SpecSales == InitSales /\ [][NextSales]_vars

(***************************************************************************)
(* New-article runs: the v2 Sales handler on article numbers and master    *)
(* files that differ in letter case and surrounding spaces (SpecMaster)    *)
(***************************************************************************)
InitMaster ==
    /\ pc = "sales_upload"
    /\ wb_raw \in IdWorkbooks
    /\ master_file \in IdMasterFiles
    /\ master_articles = NoMaster
    /\ articles = <<>> /\ customers = <<>>
    /\ sales_results = NoSalesResults
    /\ sales_error = "none" /\ sales_error_sheets = <<>>
    /\ arts = <<>>
    /\ sales_res = NoSalesRes
    /\ sales_error3 = "none" /\ sales_error_sheets3 = <<>>
    /\ sales_page3 = "empty"
    /\ IdleParse /\ IdleSheet /\ IdleCohort /\ IdleOrders /\ IdleWow
    /\ IdleIntel /\ IdleAnalytics
    /\ IdleTop20 /\ IdleBook /\ IdlePeriods

NextMaster == SalesProcess

SpecMaster == InitMaster /\ [][NextMaster]_vars

(***************************************************************************)
(* Page runs: any number of clicks on Process in the Order Book page of    *)
(* one of the two applications, or one run of the Sales pages (SpecPages)  *)
(***************************************************************************)
InitBook ==
    /\ pc \in {"ob_upload", "ob_upload3"}
    /\ IdleBook /\ IdlePeriods
    /\ IdleParse /\ IdleSheet /\ IdleCohort /\ IdleOrders /\ IdleWow /\ IdleSales
    /\ IdleIntel /\ IdleAnalytics /\ IdleTop20

InitPages == InitBook \/ InitSales

\* the v2 Process handler and st.rerun() (v2 1104-1139): the user picks the
\* files, clicks, and the page is drawn again with what the session holds
BookProcess ==
    /\ pc \in {"ob_upload", "ob_page"}
    /\ \E this_week \in PageFiles, last_week \in PreviousFiles :
          LET run == order_book_process(this_week, last_week, fx_rates, ob_results)
          IN  /\ current_file' = this_week
              /\ previous_file' = last_week
              /\ ob_error' = run.error
              /\ ob_error_sheets' = run.error_sheets
              /\ ob_results' = run.results
    /\ pc' = "ob_page"
    /\ UNCHANGED <<bookV3, parseVars, sheetVars, cohortVars, orderVars, wowVars, salesVars, intelVars, analyticsVars, top20Vars, periodVars>>

\* the v3 Process handler (v3 540-555)
BookProcessV3 ==
    /\ pc \in {"ob_upload3", "ob_page3"}
    /\ \E f \in PageFiles :
          LET run == order_book_process_v3(f, fx_rates, ob_res)
          IN  /\ file3' = f
              /\ ob_error3' = run.error
              /\ ob_error_sheets3' = run.error_sheets
              /\ ob_res' = run.res
    /\ pc' = "ob_page3"
    /\ UNCHANGED <<bookV2, parseVars, sheetVars, cohortVars, orderVars, wowVars, salesVars, intelVars, analyticsVars, top20Vars, periodVars>>

NextPages == BookProcess \/ BookProcessV3 \/ SalesProcess \/ SalesProcessV3 \/ SalesPageV3

SpecPages == InitPages /\ [][NextPages]_vars

(***************************************************************************)
(* v2 Intelligence runs: analyze_sales_intelligence on the customers of    *)
(* parse_sales_master (SpecIntel)                                          *)
(***************************************************************************)
InitIntel ==
    /\ pc = "customers"
    /\ master_customers \in SeqsUpTo(MasterCustomers, MaxCust)
    /\ analysis = NoAnalysis
    /\ IdleParse /\ IdleSheet /\ IdleCohort /\ IdleOrders /\ IdleWow /\ IdleSales
    /\ IdleAnalytics
    /\ IdleTop20 /\ IdleBook /\ IdlePeriods

AnalyzeSalesIntelligence ==
    /\ pc = "customers"
    /\ analysis' = analyze_sales_intelligence(master_customers)
    /\ pc' = "analysis"
    /\ UNCHANGED <<master_customers, parseVars, sheetVars, cohortVars, orderVars, wowVars, salesVars, analyticsVars, top20Vars, bookVars, periodVars>>

NextIntel == AnalyzeSalesIntelligence

SpecIntel == InitIntel /\ [][NextIntel]_vars

(***************************************************************************)
(* Cohort-list runs: analyze_cohorts on a master file, or                  *)
(* analyze_sales_intelligence on a customer list (SpecSorted)              *)
(***************************************************************************)
InitSorted == InitCohort \/ InitIntel

NextSorted == AnalyzeCohorts \/ GenerateHtml \/ AnalyzeSalesIntelligence

SpecSorted == InitSorted /\ [][NextSorted]_vars

(***************************************************************************)
(* Period-selection runs: the v3 Generate Dashboard handler on the LTM     *)
(* labels of a master file (SpecPeriods)                                   *)
(***************************************************************************)
InitPeriods ==
    /\ pc = "intel_upload3"
    /\ ltm_keys \in LabelSets
    /\ intel_ltm = NoIntelLtm
    /\ intel_error3 = "none"
    /\ IdleParse /\ IdleSheet /\ IdleCohort /\ IdleOrders /\ IdleWow /\ IdleSales
    /\ IdleIntel /\ IdleAnalytics /\ IdleTop20 /\ IdleBook

\* ltms = sorted(data['ltm_trend'].keys()), the choice of curr and prev, and
\* `if curr and prev` (v3 604-614)
GenerateDashboard ==
    /\ pc = "intel_upload3"
    /\ LET picked == pick_periods(SortedLabels(ltm_keys))
       IN  IF ~picked.curr.isNone /\ ~picked.prev.isNone
           THEN /\ intel_ltm' = [set |-> TRUE, curr |-> picked.curr, prev |-> picked.prev]
                /\ intel_error3' = "none"
           ELSE /\ intel_error3' = "no_ltm_data"
                /\ UNCHANGED intel_ltm
    /\ pc' = "intel_page3"
    /\ UNCHANGED <<ltm_keys, parseVars, sheetVars, cohortVars, orderVars, wowVars, salesVars, intelVars, analyticsVars, top20Vars, bookVars>>

NextPeriods == GenerateDashboard

SpecPeriods == InitPeriods /\ [][NextPeriods]_vars

(***************************************************************************)
(* Order-book analysis runs: the three analyses of create_order_book_output *)
(* (v2 768-770) on one order list (SpecAnalytics)                          *)
(***************************************************************************)
InitAnalytics ==
    /\ pc = "book"
    /\ book_orders \in Books
    /\ today = Today
    /\ threshold \in Thresholds
    /\ aging = <<>>
    /\ large = <<>>
    /\ concentration = NoConcentration
    /\ IdleParse /\ IdleSheet /\ IdleCohort /\ IdleOrders /\ IdleWow /\ IdleSales
    /\ IdleIntel
    /\ IdleTop20 /\ IdleBook /\ IdlePeriods

AnalyzeOrderAging ==
    /\ pc = "book"
    /\ aging' = analyze_order_aging(book_orders, today)
    /\ pc' = "aged"
    /\ UNCHANGED <<book_orders, today, threshold, large, concentration, parseVars, sheetVars, cohortVars, orderVars, wowVars, salesVars, intelVars, top20Vars, bookVars, periodVars>>

AnalyzeLargeOrders ==
    /\ pc = "aged"
    /\ large' = analyze_large_orders(book_orders, threshold)
    /\ pc' = "sized"
    /\ UNCHANGED <<book_orders, today, threshold, aging, concentration, parseVars, sheetVars, cohortVars, orderVars, wowVars, salesVars, intelVars, top20Vars, bookVars, periodVars>>

AnalyzeCustomerConcentration ==
    /\ pc = "sized"
    /\ concentration' = analyze_customer_concentration(book_orders)
    /\ pc' = "analysed"
    /\ UNCHANGED <<book_orders, today, threshold, aging, large, parseVars, sheetVars, cohortVars, orderVars, wowVars, salesVars, intelVars, top20Vars, bookVars, periodVars>>

NextAnalytics == AnalyzeOrderAging \/ AnalyzeLargeOrders \/ AnalyzeCustomerConcentration

SpecAnalytics == InitAnalytics /\ [][NextAnalytics]_vars

(***************************************************************************)
(* Top-20 runs: create_sales_output_v2 on a list of articles, then the pie *)
(* summary of the Sales page (SpecTop20)                                   *)
(***************************************************************************)
InitTop20 ==
    /\ pc = "ranking"
    /\ sold_articles \in SoldLists
    /\ pie_stats = NoPieStats
    /\ pie_art = NoPie
    /\ IdleParse /\ IdleSheet /\ IdleCohort /\ IdleOrders /\ IdleWow /\ IdleSales
    /\ IdleIntel /\ IdleAnalytics /\ IdleBook /\ IdlePeriods

CreateSalesOutput ==
    /\ pc = "ranking"
    /\ pie_stats' = sales_stats(sold_articles)
    /\ pc' = "ranked"
    /\ UNCHANGED <<sold_articles, pie_art, parseVars, sheetVars, cohortVars, orderVars, wowVars, salesVars, intelVars, analyticsVars, bookVars, periodVars>>

\* the page is drawn from the stored result; a run that raised stored none
ShowPie ==
    /\ pc = "ranked"
    /\ pie_stats.error = "none"
    /\ pie_art' = pie_values(pie_stats)
    /\ pc' = "pie"
    /\ UNCHANGED <<sold_articles, pie_stats, parseVars, sheetVars, cohortVars, orderVars, wowVars, salesVars, intelVars, analyticsVars, bookVars, periodVars>>

NextTop20 == CreateSalesOutput \/ ShowPie

SpecTop20 == InitTop20 /\ [][NextTop20]_vars

(***************************************************************************)
(* Claims about the parsers (SpecParse)                                    *)
(***************************************************************************)
IsNumericText(t) == \A i \in 1..Len(t) : InAmountClass(t[i])

\* the value a numeric text denotes under the decimal-comma rule, as the
\* documentation states it: [ok, val]
RuleValue(t) ==
    LET s == Remove(t, {" ", NBSP}) IN
    IF EndsCommaTwoDigits(s)
    THEN LET whole == Remove(SubSeq(s, 1, Len(s) - 3), {"."})
             cents == SubSeq(s, Len(s) - 1, Len(s))
         IN  [ok  |-> \A i \in 1..Len(whole) : IsDigit(whole[i]),
              val |-> DigitsVal(Remove(whole, {","})) * Unit
                      + DigitsVal(cents) * (Unit \div 100)]
    ELSE LET w == Remove(s, {","}) IN
         [ok |-> FloatOk(w), val |-> IF FloatOk(w) THEN FloatVal(w) ELSE 0]

\* C3: on every numeric text both parsers apply the decimal-comma rule: a text
\* ending in a comma and two digits reads the comma as the decimal separator
\* and drops the dots; any other text drops the commas and reads a dot as the
\* decimal point; spaces and non-breaking spaces are removed first.  The
\* documented examples come out as 3800.50, (3800.50, EUR) and 5211.00.
C3_SeparatorRule ==
    /\ (pc = "parsed" /\ ~raw_value.isNone /\ IsNumericText(raw_value.text)
         /\ RuleValue(raw_value.text).ok)
        => /\ amount_res = AmountOf(RuleValue(raw_value.text).val, "SEK")
           /\ number_res = NumFloat(RuleValue(raw_value.text).val)
    /\ (pc = "parsed" /\ raw_value = TextCell(Ex3800_50))
        => /\ number_res = NumFloat(380050 * (Unit \div 100))
           /\ amount_res = AmountOf(380050 * (Unit \div 100), "SEK")
    /\ (pc = "parsed" /\ raw_value = TextCell(Ex3800_50_EUR))
        => amount_res = AmountOf(380050 * (Unit \div 100), "EUR")
    /\ (pc = "parsed" /\ raw_value = TextCell(Ex5211_00))
        => /\ number_res = NumFloat(5211 * Unit)
           /\ amount_res = AmountOf(5211 * Unit, "SEK")

C3_Witness ==
    /\ pc = "parsed"
    /\ raw_value = TextCell(Ex3800_50)
    /\ number_res = NumFloat(380050 * (Unit \div 100))
    /\ amount_res = AmountOf(380050 * (Unit \div 100), "SEK")

\* the cleaned form clean_number hands to float()
NumberCleaned(t) == ApplySeparatorRule(Remove(Strip(t), {NBSP, " "}))

\* the numeric run clean_amount_with_currency hands to float(), cleaned
AmountCleaned(t) ==
    ApplySeparatorRule(Remove(SubSeq(Strip(t), 1, AmountPrefixLen(Strip(t))), {NBSP, " "}))

\* C4 as stated: None, empty, a sentinel, or text whose cleaned form does not
\* parse (text ending in '%' excepted for clean_number) gives (None, None)
\* from clean_amount_with_currency and None from clean_number.
C4_AsClaimed ==
    pc = "parsed" =>
        /\ (raw_value.isNone \/ Strip(raw_value.text) \in Sentinels
             \/ ~FloatOk(AmountCleaned(raw_value.text)))
            => amount_res = AmountNone
        /\ (raw_value.isNone \/ Strip(raw_value.text) \in Sentinels
             \/ (~FloatOk(NumberCleaned(raw_value.text))
                 /\ ~EndsWith(Strip(raw_value.text), "%")))
            => number_res = NumNone

\* C4 amended: clean_amount_with_currency gives (None, None) for None, empty,
\* a sentinel, or text whose leading numeric run is missing or does not parse;
\* clean_number gives None exactly for None, empty and the sentinels, and
\* hands back the stripped text for any other text that does not parse.
C4_NullResults ==
    pc = "parsed" =>
        /\ (raw_value.isNone \/ Strip(raw_value.text) \in Sentinels
             \/ ~FloatOk(AmountCleaned(raw_value.text)))
            => amount_res = AmountNone
        /\ (raw_value.isNone \/ Strip(raw_value.text) \in Sentinels)
            <=> number_res = NumNone
        /\ (~raw_value.isNone /\ Strip(raw_value.text) \notin Sentinels
             /\ ~FloatOk(NumberCleaned(raw_value.text)))
            => number_res = NumStr(Strip(raw_value.text))

C4_Witness ==
    /\ pc = "parsed"
    /\ raw_value = TextCell(<<"1", ".", "1", ".", "x">>)
    /\ amount_res = AmountNone
    /\ number_res = NumStr(<<"1", ".", "1", ".", "x">>)

(***************************************************************************)
(* Claims about the sheet resolver (SpecSheet)                             *)
(***************************************************************************)
\* the sheet a resolver is meant to return: the sheet matching the earliest
\* matching candidate, else the only sheet, else none
ExpectedSheet(wb, names) ==
    LET hits == {j \in 1..Len(names) : \E n \in Range(wb) : Lower(n) = Lower(names[j])}
    IN  IF hits # {}
        THEN LET first == CHOOSE j \in hits : \A k \in hits : j <= k
             IN  Sheet(CHOOSE n \in Range(wb) : Lower(n) = Lower(names[first]))
        ELSE IF Cardinality(Range(wb)) = 1 THEN Sheet(CHOOSE n \in Range(wb) : TRUE)
        ELSE NoSheet

\* C7: find_sheet (v2 and v3) returns the sheet matched by the earliest
\* candidate that equals a sheet name ignoring case, whatever the order of the
\* sheets; with no match it returns the only sheet of a one-sheet workbook,
\* and None otherwise.
C7_FindSheet ==
    pc = "resolved" =>
        /\ sheet_res = ExpectedSheet(sheetnames, possible_names)
        /\ sheet_res3 = ExpectedSheet(sheetnames, possible_names)
        /\ \A wb \in Workbooks :
              Range(wb) = Range(sheetnames)
                  => find_sheet(wb, possible_names) = sheet_res

C7_Witness ==
    /\ pc = "resolved"
    /\ sheetnames = <<"orders", "Summary", "ORDER BOOK">>
    /\ possible_names = OrderBookNamesV2
    /\ sheet_res = Sheet("ORDER BOOK")
    /\ sheet_res3 = Sheet("ORDER BOOK")

(***************************************************************************)
(* Claims about the cohorts and the revenue bridge (SpecCohort)            *)
(***************************************************************************)
\* how many entries of a list, or rows of the input, carry customer name k
CountKund(s, k) == Cardinality({i \in 1..Len(s) : s[i].kund = k})

Listed(k) ==
    CountKund(cohorts.churned, k) + CountKund(cohorts.declining, k)
        + CountKund(cohorts.growing, k) + CountKund(cohorts.new, k)

FlatRows(k) ==
    Cardinality({i \in 1..Len(data.customers) :
        /\ data.customers[i].kund = k
        /\ LtmGet(data.customers[i], curr_ltm) = LtmGet(data.customers[i], prev_ltm)})

\* C1: analyze_cohorts puts each customer in at most one of its four lists,
\* and every customer it puts in none has curr = prev; counted per customer
\* name, the listed entries never exceed the input rows of that name and the
\* rows left out are no more than the flat rows of that name.
C1_CohortPartition ==
    pc \in {"cohorts", "html"} =>
        \A k \in Kunder :
            /\ Listed(k) <= CountKund(data.customers, k)
            /\ CountKund(data.customers, k) - Listed(k) <= FlatRows(k)

C1_Witness ==
    /\ pc = "cohorts"
    /\ Len(data.customers) = 2
    /\ data.customers[1].kund = "A" /\ data.customers[2].kund = "B"
    /\ data.customers[1].churned
    /\ LtmGet(data.customers[1], prev_ltm) = 0
    /\ LtmGet(data.customers[1], curr_ltm) = 2
    /\ LtmGet(data.customers[2], prev_ltm) = 1
    /\ LtmGet(data.customers[2], curr_ltm) = 1
    /\ Len(cohorts.churned) = 1 /\ cohorts.churned[1].kund = "A"
    /\ cohorts.new = <<>> /\ cohorts.declining = <<>> /\ cohorts.growing = <<>>

NoFlatCustomer ==
    \A i \in 1..Len(data.customers) :
        LtmGet(data.customers[i], curr_ltm) # LtmGet(data.customers[i], prev_ltm)

NoNegativeRevenue ==
    \A i \in 1..Len(data.customers) :
        LtmGet(data.customers[i], curr_ltm) >= 0 /\ LtmGet(data.customers[i], prev_ltm) >= 0

\* C2: with no flat customer, prior_total - churn_loss - decline_loss
\* + growth_gain + new_gain equals current_total (stated here for master data
\* without negative revenue, the plainest data the claim covers).
C2_BridgeReconciles ==
    (pc = "html" /\ NoFlatCustomer /\ NoNegativeRevenue) =>
        bridge.prev_ltm_val - bridge.churn_loss - bridge.decline_loss
            + bridge.growth_gain + bridge.new_gain = bridge.total_ltm

\* the names of the rows of the input that satisfy P, and of a list's entries,
\* as counts per name
RowsWhere(k, P(_)) ==
    Cardinality({i \in 1..Len(data.customers) :
        data.customers[i].kund = k /\ P(data.customers[i])})

PrevOf(c) == LtmGet(c, prev_ltm)
CurrOf(c) == LtmGet(c, curr_ltm)

ClaimChurned(c) == c.churned \/ (PrevOf(c) > 0 /\ CurrOf(c) = 0)
ClaimNew(c) == PrevOf(c) = 0 /\ CurrOf(c) > 0
ClaimDeclining(c) == ~ClaimChurned(c) /\ ~ClaimNew(c) /\ CurrOf(c) - PrevOf(c) < 0
ClaimGrowing(c) == ~ClaimChurned(c) /\ ~ClaimNew(c) /\ CurrOf(c) - PrevOf(c) > 0

ClassifiedAsClaimed ==
    \A k \in Kunder :
        /\ CountKund(cohorts.churned, k) = RowsWhere(k, ClaimChurned)
        /\ CountKund(cohorts.declining, k) = RowsWhere(k, ClaimDeclining)
        /\ CountKund(cohorts.growing, k) = RowsWhere(k, ClaimGrowing)

\* e.pct = ((current - previous) / previous) * 100, as an exact quotient
PctIsQuotient(e) == e.pct.num * e.previous = (e.current - e.previous) * 100 * e.pct.den

PctIsZero(e) == e.pct.num = 0

MovedEntries == Range(cohorts.declining) \cup Range(cohorts.growing)

\* C10 as stated: Churned exactly on the marker or (prev > 0 and curr = 0),
\* Declining and Growing exactly on the sign of curr - prev among the rest,
\* and every Declining or Growing entry carries pct = (curr - prev) / prev * 100,
\* or 0 when prev = 0.
C10_AsClaimed ==
    pc \in {"cohorts", "html"} =>
        /\ ClassifiedAsClaimed
        /\ \A e \in MovedEntries :
              IF e.previous = 0 THEN PctIsZero(e) ELSE PctIsQuotient(e)

\* C10 amended: the same classification; pct = (curr - prev) / prev * 100 when
\* prev > 0, and 0 when prev <= 0.
C10_Classification ==
    pc \in {"cohorts", "html"} =>
        /\ ClassifiedAsClaimed
        /\ \A e \in MovedEntries :
              IF e.previous > 0 THEN PctIsQuotient(e) ELSE PctIsZero(e)

C10_Witness ==
    /\ pc = "cohorts"
    /\ Len(data.customers) = 2
    /\ Len(cohorts.growing) = 1
    /\ cohorts.growing[1].previous = -1 /\ cohorts.growing[1].current = 1
    /\ PctIsZero(cohorts.growing[1])
    /\ Len(cohorts.declining) = 1
    /\ cohorts.declining[1].previous = 2 /\ cohorts.declining[1].current = 1
    /\ cohorts.declining[1].pct = Pct(-100, 2)

(***************************************************************************)
(* Claims about the order book (SpecOrders, SpecWow)                       *)
(***************************************************************************)
\* fx_rates[currency] if the currency is a key of the table, 1.0 otherwise
ClaimedRate(currency) ==
    IF currency \in DOMAIN fx_rates THEN fx_rates[currency] ELSE 1000

\* sek is amount * rate rounded to two decimals: a whole number of
\* hundredths, at most half a hundredth from the exact product, and the even
\* neighbour when the product lies exactly between two hundredths
IsRoundedProduct(sek, amount, rate) ==
    LET p    == ProductParts(amount, rate)
        h    == sek \div (Unit \div 100)
        diff == (h - p.q) * p.d - p.n
    IN  /\ sek % (Unit \div 100) = 0
        /\ 2 * Abs(diff) <= p.d
        /\ (2 * Abs(diff) = p.d => h % 2 = 0)

\* the rows of the sheet whose amount cell parses
ParsedRows == SelectSeq(ws_raw, LAMBDA row : clean_amount_with_currency(row.c6).ok)

\* C8: every Order of parse_order_book and of the v3 Order Book loop has
\* belopp_sek = round(amount * rate, 2), with rate = fx_rates[currency] when
\* the currency is a key of the table and 1.0 otherwise; 100 EUR under the
\* default table gives 1120.0.
C8_Conversion ==
    /\ pc \in {"orders_v2", "orders"} =>
          \A i \in 1..Len(orders) :
              /\ IsRoundedProduct(orders[i].belopp_sek, orders[i].belopp,
                                  ClaimedRate(orders[i].valuta))
              /\ (fx_rates = FxDefault /\ orders[i].belopp = 100 * Unit
                      /\ orders[i].valuta = "EUR")
                    => orders[i].belopp_sek = 1120 * Unit
    /\ pc = "orders" =>
          /\ Len(orders3) = Len(ParsedRows)
          /\ \A i \in 1..Len(orders3) :
                LET parsed == clean_amount_with_currency(ParsedRows[i].c6)
                IN  IsRoundedProduct(orders3[i].belopp_sek, parsed.amount,
                                     ClaimedRate(parsed.currency))

\* both extractors have converted 100 EUR to 1120.0 and 0.375 USD, whose
\* product 3.9375 rounds up, to 3.94 under the default table
C8_Witness ==
    /\ pc = "orders"
    /\ fx_rates = FxDefault
    /\ Len(orders) = 2
    /\ orders[1].belopp = 100 * Unit /\ orders[1].valuta = "EUR"
    /\ orders[1].belopp_sek = 1120 * Unit
    /\ orders[2].valuta = "USD" /\ orders[2].belopp_sek = 394 * (Unit \div 100)
    /\ Len(orders3) = 2
    /\ orders3[1].belopp_sek = 1120 * Unit
    /\ orders3[2].belopp_sek = 394 * (Unit \div 100)

CurrentIds == {current_orders[i].ordernr : i \in 1..Len(current_orders)}
PreviousIds == {previous_orders[i].ordernr : i \in 1..Len(previous_orders)}

\* the three lists are the orders whose id is in current minus previous, in
\* previous minus current, and in both, each with the total of its orders,
\* and net_amount = total(new) - total(closed)
WowListsAsClaimed ==
    /\ wow_data.new.orders =
          SelectSeq(current_orders, LAMBDA o : o.ordernr \in CurrentIds \ PreviousIds)
    /\ wow_data.closed.orders =
          SelectSeq(previous_orders, LAMBDA o : o.ordernr \in PreviousIds \ CurrentIds)
    /\ wow_data.unchanged.orders =
          SelectSeq(current_orders, LAMBDA o : o.ordernr \in CurrentIds \cap PreviousIds)
    /\ \A part \in {wow_data.new, wow_data.closed, wow_data.unchanged} :
          part.total = SumSeq([i \in 1..Len(part.orders) |-> part.orders[i].belopp_sek])
    /\ wow_data.net_amount = wow_data.new.total - wow_data.closed.total

\* no order id occurs twice in the list
IdsUnique(os) == \A i, j \in 1..Len(os) : os[i].ordernr = os[j].ordernr => i = j

\* C9 as stated: new, closed and unchanged are the orders whose id is in
\* current_ids minus previous_ids, previous_ids minus current_ids and both;
\* the reported counts are the sizes of these id sets, net_count = |new| -
\* |closed| and net_amount = total(new) - total(closed).
C9_AsClaimed ==
    pc = "wow" =>
        /\ WowListsAsClaimed
        /\ wow_data.new.count = Cardinality(CurrentIds \ PreviousIds)
        /\ wow_data.closed.count = Cardinality(PreviousIds \ CurrentIds)
        /\ wow_data.unchanged.count = Cardinality(CurrentIds \cap PreviousIds)
        /\ wow_data.net_count =
              Cardinality(CurrentIds \ PreviousIds) - Cardinality(PreviousIds \ CurrentIds)

\* C9, amended: the lists, totals and net_amount are as stated; each reported
\* count is the number of orders in its list and net_count the difference of
\* the new and closed counts; the counts are the sizes of the id sets when no
\* order id occurs twice within the current list or within the previous list.
C9_WeekOverWeek ==
    pc = "wow" =>
        /\ WowListsAsClaimed
        /\ \A part \in {wow_data.new, wow_data.closed, wow_data.unchanged} :
              part.count = Len(part.orders)
        /\ wow_data.net_count = wow_data.new.count - wow_data.closed.count
        /\ (IdsUnique(current_orders) /\ IdsUnique(previous_orders)) =>
              /\ wow_data.new.count = Cardinality(CurrentIds \ PreviousIds)
              /\ wow_data.closed.count = Cardinality(PreviousIds \ CurrentIds)
              /\ wow_data.unchanged.count = Cardinality(CurrentIds \cap PreviousIds)

\* the documented example has been analysed: current {A, B, C}, previous
\* {A, B, D}, new {C}, closed {D}, unchanged {A, B}, net_count 0
C9_Witness ==
    /\ pc = "wow"
    /\ CurrentIds = {"A", "B", "C"} /\ PreviousIds = {"A", "B", "D"}
    /\ OrderIds(wow_data.new.orders) = {"C"}
    /\ OrderIds(wow_data.closed.orders) = {"D"}
    /\ OrderIds(wow_data.unchanged.orders) = {"A", "B"}
    /\ wow_data.new.count = 1 /\ wow_data.closed.count = 1
    /\ wow_data.net_count = 0

(***************************************************************************)
(* Claims about the sales extraction and the Sales handlers (SpecSales)    *)
(***************************************************************************)
\* a numeric non-zero net amount
NumericNonZero(n) == n.tag = "float" /\ n.val # 0

\* the workbook holds an Article sheet and a Company sheet, so that each
\* extractor reads the sheet meant for it
NamedSheets == wb_raw.sheetnames = <<"Article", "Company">>

\* C5: the article and customer extractors and the v3 Sales loop emit a
\* record only for a row whose key cell is non-null and whose net amount
\* parses to a non-zero number, so every emitted record has a numeric
\* non-zero net amount (stated for workbooks with an Article and a Company
\* sheet).
C5_NetAmountGate ==
    NamedSheets =>
    /\ pc \in {"sales_v2", "sales_v3", "sales_page"} =>
          /\ \A i \in 1..Len(articles) :
                articles[i].artikelnr # <<>> /\ NumericNonZero(articles[i].summa)
          /\ \A i \in 1..Len(customers) :
                customers[i].kund # <<>> /\ NumericNonZero(customers[i].summa)
    /\ pc \in {"sales_v3", "sales_page"} =>
          \A i \in 1..Len(arts) :
              arts[i].artikelnr # <<>> /\ NumericNonZero(arts[i].summa)

\* the total of the numeric net amounts of a list of records
NumericTotal(recs) ==
    SumSumma(SelectSeq(recs, LAMBDA r : r.summa.tag = "float"))

\* C6: a cell that fails numeric parsing never makes the run fail.  A v2
\* Sales run whose Article sheet resolved and whose numeric article and
\* customer totals are not zero (so that nothing but a parsing failure is in
\* its way) reports no error and stores its result; a v3 Sales run whose
\* Article sheet resolved reports no error, stores its result and shows it.
C6_ParseFailureNeverFailsRun ==
    /\ (/\ pc \in {"sales_v2", "sales_v3", "sales_page"}
        /\ find_sheet(wb_raw.sheetnames, ArticleNamesV2).found
        /\ NumericTotal(articles) # 0
        /\ NumericTotal(customers) # 0)
          => (sales_error = "none" /\ sales_results.set)
    /\ (/\ pc = "sales_page"
        /\ find_sheet_v3(wb_raw.sheetnames, ArticleNamesV3).found)
          => (sales_error3 = "none" /\ sales_res.set /\ sales_page3 = "shown")

(***************************************************************************)
(* Further claims about the cohorts (SpecCohort)                           *)
(***************************************************************************)
\* C11 as stated: a customer is New whenever prev = 0 and curr > 0, whatever
\* its churn marker; per customer name, the New list holds as many entries as
\* the input holds such rows.
C11_AsClaimed ==
    pc \in {"cohorts", "html"} =>
        \A k \in Kunder : CountKund(cohorts.new, k) = RowsWhere(k, ClaimNew)

\* prev = 0, curr > 0 and no churn marker
NewUnmarked(c) == ~c.churned /\ PrevOf(c) = 0 /\ CurrOf(c) > 0

\* prev = 0, curr > 0 and the churn marker set
NewButMarked(c) == c.churned /\ PrevOf(c) = 0 /\ CurrOf(c) > 0

\* C11, amended: a customer is New exactly when its churn marker is not set,
\* prev = 0 and curr > 0; a customer with prev = 0 and curr > 0 whose churn
\* marker is set is Churned.  Per customer name, the New list holds as many
\* entries as the input holds unmarked such rows, each carrying the row's
\* current revenue, and the Churned list holds at least the marked ones.
C11_NewRule ==
    pc \in {"cohorts", "html"} =>
        \A k \in Kunder :
            /\ CountKund(cohorts.new, k) = RowsWhere(k, NewUnmarked)
            /\ CountKund(cohorts.churned, k) >= RowsWhere(k, NewButMarked)
            /\ \A i \in 1..Len(cohorts.new) : cohorts.new[i].current > 0

\* of two customers with prev = 0 and curr > 0, the unmarked one has been
\* listed as New and the marked one as Churned
C11_Witness ==
    /\ pc = "cohorts"
    /\ Len(data.customers) = 2
    /\ data.customers[1].kund = "A" /\ ~data.customers[1].churned
    /\ data.customers[2].kund = "B" /\ data.customers[2].churned
    /\ \A i \in 1..2 : PrevOf(data.customers[i]) = 0 /\ CurrOf(data.customers[i]) = 1
    /\ Len(cohorts.new) = 1 /\ cohorts.new[1].kund = "A"
    /\ Len(cohorts.churned) = 1 /\ cohorts.churned[1].kund = "B"

(***************************************************************************)
(* Claims about the v2 Intelligence analysis (SpecIntel)                   *)
(***************************************************************************)
\* a customer of parse_sales_master as a record of analyze_cohorts: the same
\* prev and curr, no churn marker
AsCohortCustomer(c) ==
    [kund    |-> c.kund,
     ltm     |-> [l \in PeriodLabels |->
                    IF l = "LTM 2024-dec" THEN c.ltm_now ELSE c.ltm_prev],
     churned |-> FALSE]

BaseChurned(c) == IsChurned(AsCohortCustomer(c), "LTM 2024-dec", "LTM 2023-dec")
BaseNew(c) == IsNew(AsCohortCustomer(c), "LTM 2024-dec", "LTM 2023-dec")
BaseDeclining(c) == IsDeclining(AsCohortCustomer(c), "LTM 2024-dec", "LTM 2023-dec")
BaseGrowing(c) == IsGrowing(AsCohortCustomer(c), "LTM 2024-dec", "LTM 2023-dec")

\* C12: every customer analyze_sales_intelligence reports as churned,
\* declining, growing or new is in the same bucket under the rule of
\* analyze_cohorts and meets the threshold of that bucket (prev > 50,000;
\* |change| > 20,000; curr > 10,000), and no customer is in two of its
\* buckets.
C12_MaterialRefinesBase ==
    pc = "analysis" =>
        /\ \A c \in Range(analysis.churned) : BaseChurned(c) /\ c.ltm_prev > 50000
        /\ \A c \in Range(analysis.declining) : BaseDeclining(c) /\ Abs(c.change) > 20000
        /\ \A c \in Range(analysis.growing) : BaseGrowing(c) /\ Abs(c.change) > 20000
        /\ \A c \in Range(analysis.new_customers) : BaseNew(c) /\ c.ltm_now > 10000
        /\ Range(analysis.growing) \cap Range(analysis.new_customers) = {}
        /\ Range(analysis.churned) \cap Range(analysis.declining) = {}
        /\ Range(analysis.churned) \cap Range(analysis.growing) = {}
        /\ Range(analysis.churned) \cap Range(analysis.new_customers) = {}
        /\ Range(analysis.declining) \cap Range(analysis.growing) = {}
        /\ Range(analysis.declining) \cap Range(analysis.new_customers) = {}

(***************************************************************************)
(* Claims about the order-book analyses (SpecAnalytics)                    *)
(***************************************************************************)
\* the customers of the order list, the total of one and the grand total
BookCustomers == {book_orders[i].kundnamn : i \in 1..Len(book_orders)}

BookTotalOf(k) ==
    SumSeq([i \in 1..Len(book_orders) |->
                IF book_orders[i].kundnamn = k THEN book_orders[i].belopp_sek ELSE 0])

BookGrandTotal ==
    SumSeq([i \in 1..Len(book_orders) |-> book_orders[i].belopp_sek])

Smaller(a, b) == IF a < b THEN a ELSE b

\* top_5 holds the min(5, customers) customers with the largest totals in
\* descending order, each with its total and its percentage of the grand
\* total, and top_3_pct is the combined percentage of the first three
RankingAsClaimed ==
    LET top == concentration.top_5
        n   == Smaller(5, Cardinality(BookCustomers))
        m   == Smaller(3, Len(top))
    IN  /\ Len(top) = n
        /\ \A i \in 1..Len(top) :
              /\ top[i].name \in BookCustomers
              /\ top[i].amt = BookTotalOf(top[i].name)
              /\ top[i].pct = Pct(top[i].amt * 100, BookGrandTotal)
        /\ \A i, j \in 1..Len(top) : i # j => top[i].name # top[j].name
        /\ \A i \in 1..(Len(top) - 1) : top[i].amt >= top[i + 1].amt
        /\ \A k \in BookCustomers :
              (\A i \in 1..Len(top) : top[i].name # k) =>
                  \A i \in 1..Len(top) : BookTotalOf(k) <= top[i].amt
        /\ concentration.top_3_pct =
              IF BookCustomers = {} THEN Pct(0, 1)
              ELSE Pct(SumSeq([i \in 1..m |-> top[i].amt]) * 100, BookGrandTotal)

\* C13 as stated: analyze_customer_concentration returns the at most 5
\* customers with the largest totals in descending order, each with its total
\* and its percentage of the grand total, plus top_3_pct, the combined
\* percentage of the three largest, for every order list.
C13_AsClaimed == pc = "analysed" => RankingAsClaimed

\* C13, amended: the ranking is returned as stated when the grand total is
\* not zero; when it is zero (no orders, or only orders of amount 0) the
\* function returns no customer at all and 0 for the percentages.
C13_Concentration ==
    pc = "analysed" =>
        IF BookGrandTotal = 0
        THEN concentration.top_5 = <<>> /\ concentration.top_3_pct.num = 0
        ELSE RankingAsClaimed

\* six customers, K6 with two orders that add up to the largest total: five
\* customers have been returned, K6 first with total 5 of 13
C13_Witness ==
    /\ pc = "analysed"
    /\ Cardinality(BookCustomers) = 6
    /\ Len(book_orders) = 7
    /\ BookTotalOf("K6") = 5
    /\ BookGrandTotal = 13
    /\ Len(concentration.top_5) = 5
    /\ concentration.top_5[1] = [name |-> "K6", amt |-> 5, pct |-> Pct(500, 13)]
    /\ concentration.top_5[2].amt = 3
    /\ concentration.top_3_pct = Pct((5 + 3 + concentration.top_5[3].amt) * 100, 13)

\* the order-book analyses have run on book_orders
Aged == pc \in {"aged", "sized", "analysed"}
Sized == pc \in {"sized", "analysed"}

\* whole days from the order's date to today
DaysOld(o) == today - o.orderdatum.day

\* the orders analyze_order_aging is to return: dated, and older than 90 days
Stale == {i \in 1..Len(book_orders) :
             book_orders[i].orderdatum.isDate /\ DaysOld(book_orders[i]) > 90}

\* the alert a reports the order o
Reports(a, o) ==
    /\ a.ordernr = o.ordernr
    /\ a.kundnamn = o.kundnamn
    /\ a.orderdatum = o.orderdatum
    /\ a.belopp_sek = o.belopp_sek
    /\ a.orderdatum.isDate
    /\ a.days_old = DaysOld(o)

\* C16: analyze_order_aging returns exactly the orders that have a date and
\* whose days_old = (today - order_date) in whole days is greater than 90,
\* one alert for each, sorted descending by days_old; an order without a date
\* is never returned.
C16_Aging ==
    Aged =>
        /\ Len(aging) = Cardinality(Stale)
        /\ \A i \in Stale :
              Cardinality({n \in 1..Len(aging) : Reports(aging[n], book_orders[i])})
                  = Cardinality({j \in Stale : book_orders[j] = book_orders[i]})
        /\ \A n \in 1..Len(aging) :
              /\ aging[n].orderdatum.isDate
              /\ aging[n].days_old > 90
              /\ \E i \in Stale : Reports(aging[n], book_orders[i])
        /\ \A n \in 1..(Len(aging) - 1) : aging[n].days_old >= aging[n + 1].days_old

\* an order of 90 days and an order of 91 days: only the second is returned
C16_Witness ==
    /\ Aged
    /\ Len(book_orders) = 2
    /\ book_orders[1].orderdatum = DateCell(today - 90)
    /\ book_orders[2].orderdatum = DateCell(today - 91)
    /\ Len(aging) = 1
    /\ aging[1].days_old = 91
    /\ Reports(aging[1], book_orders[2])

\* an order without a date next to one of 200 days: only the second is returned
C16_WitnessNoDate ==
    /\ Aged
    /\ Len(book_orders) = 2
    /\ ~book_orders[1].orderdatum.isDate
    /\ book_orders[2].orderdatum = DateCell(today - 200)
    /\ Len(aging) = 1
    /\ aging[1].days_old = 200

\* the amounts analyze_large_orders is to return
OverThreshold == {i \in 1..Len(book_orders) : book_orders[i].belopp_sek > threshold}

\* C17: analyze_large_orders returns exactly the orders whose amount in SEK
\* is greater than the threshold (100,000 when not given), each once, sorted
\* descending by that amount.
C17_LargeOrders ==
    Sized =>
        /\ Len(large) = Cardinality(OverThreshold)
        /\ \A i \in OverThreshold :
              Cardinality({n \in 1..Len(large) : large[n] = book_orders[i]})
                  = Cardinality({j \in OverThreshold : book_orders[j] = book_orders[i]})
        /\ \A n \in 1..Len(large) :
              /\ large[n].belopp_sek > threshold
              /\ \E i \in OverThreshold : large[n] = book_orders[i]
        /\ \A n \in 1..(Len(large) - 1) : large[n].belopp_sek >= large[n + 1].belopp_sek

\* under the default threshold an order of exactly 100,000 is left out and an
\* order of 100,001 is returned
C17_Witness ==
    /\ Sized
    /\ threshold = 100000
    /\ Len(book_orders) = 2
    /\ book_orders[1].belopp_sek = 100000
    /\ book_orders[2].belopp_sek = 100001
    /\ large = <<book_orders[2]>>

\* under a threshold of 2 the six-customer lists are returned in descending
\* order of amount
C17_WitnessSorted ==
    /\ Sized
    /\ threshold = 2
    /\ Len(book_orders) = 6
    /\ Len(large) = 3
    /\ book_orders[1].belopp_sek < 3
    /\ \A n \in 1..3 : large[n].belopp_sek = 3

(***************************************************************************)
(* Further claims about the order book (SpecOrders)                        *)
(***************************************************************************)
\* the rows of the sheet whose amount cell parses, and the n-th of them
Parseable == {i \in 1..Len(ws_raw) : clean_amount_with_currency(ws_raw[i].c6).ok}

NthParseable(n) ==
    CHOOSE i \in Parseable : Cardinality({j \in Parseable : j <= i}) = n

\* C18: parse_order_book emits one order for each row whose amount cell
\* (column 6) is parseable as an amount and none for any other row, in row
\* order: the n-th order carries the order number, date, customer and
\* amount of the n-th such row.  A row that fails the gate only shortens the
\* list.
C18_RowGate ==
    pc \in {"orders_v2", "orders"} =>
        /\ Len(orders) = Cardinality(Parseable)
        /\ \A n \in 1..Len(orders) :
              LET row == ws_raw[NthParseable(n)] IN
              /\ orders[n].ordernr = row.c1
              /\ orders[n].orderdatum = OrderDate(row.c2)
              /\ orders[n].kundnamn = row.c3
              /\ orders[n].belopp = clean_amount_with_currency(row.c6).amount
              /\ orders[n].valuta = clean_amount_with_currency(row.c6).currency

\* row A with the amount cell 'x' and row B with '1,50': one order, for B
C18_Witness ==
    /\ pc = "orders_v2"
    /\ Len(ws_raw) = 2
    /\ ws_raw[1].c1 = "A" /\ ws_raw[1].c6 = TextCell(<<"x">>)
    /\ ws_raw[2].c1 = "B" /\ ws_raw[2].c6 = TextCell(<<"1", ",", "5", "0">>)
    /\ Len(orders) = 1
    /\ orders[1].ordernr = "B"

\* rows B and A, both with a parseable amount: two orders, B first
C18_WitnessOrder ==
    /\ pc = "orders_v2"
    /\ Len(ws_raw) = 2
    /\ ws_raw[1].c1 = "B" /\ ws_raw[2].c1 = "A"
    /\ Len(orders) = 2
    /\ orders[1].ordernr = "B" /\ orders[2].ordernr = "A"

(***************************************************************************)
(* Further claims about the Sales runs (SpecSales)                         *)
(***************************************************************************)
\* every net amount of the parsed records is a number and their grand total,
\* for the articles or for the customers, is zero
ZeroGrandTotal ==
    /\ ~HasStr(articles)
    /\ ~HasStr(customers)
    /\ (SumSumma(articles) = 0 \/ SumSumma(customers) = 0)

\* C14: whenever the grand total of the records being ranked is zero (an
\* empty article list, an empty customer list because no Company sheet was
\* found), the top-20 computation of the v2 Sales run yields zero percentages
\* and completes without a division error.
C14_ZeroTotalNoDivisionError ==
    (/\ pc \in {"sales_v2", "sales_v3", "sales_page"}
     /\ find_sheet(wb_raw.sheetnames, ArticleNamesV2).found
     /\ ZeroGrandTotal)
        => /\ sales_error = "none"
           /\ sales_results.set
           /\ (SumSumma(articles) = 0 => sales_results.stats.top20_art_pct.num = 0)
           /\ (SumSumma(customers) = 0 => sales_results.stats.top20_cust_pct.num = 0)

(***************************************************************************)
(* Claims about the top-20 ranking (SpecTop20)                             *)
(***************************************************************************)
SoldVals == SummaVals(sold_articles)

CountOf(vals, v) == Cardinality({i \in 1..Len(vals) : vals[i] = v})
CountAbove(vals, v) == Cardinality({i \in 1..Len(vals) : vals[i] > v})

\* top holds the 20 largest of the net amounts (all when fewer than 20), in
\* descending order
IsTop20Of(top, vals) ==
    /\ Len(top) = Smaller(20, Len(vals))
    /\ \A i \in 1..(Len(top) - 1) : top[i] >= top[i + 1]
    /\ \A i \in 1..Len(vals) :
          LET v    == vals[i]
              room == 20 - CountAbove(vals, v)
          IN  CountOf(top, v) =
                  IF room <= 0 THEN 0 ELSE Smaller(room, CountOf(vals, v))

\* C15: the top-20 bucket consists of the first 20 records after sorting
\* descending by net amount (all records when there are fewer than 20), its
\* total is the sum of the 20 largest net amounts, and top20_total +
\* other_total, the two values of the pie summary, equals the grand total
\* exactly.
C15_Top20Reconciles ==
    pc = "pie" =>
        /\ IsTop20Of(SummaVals(pie_stats.top20_articles), SoldVals)
        /\ pie_art.top20 = FloatSum(SummaVals(pie_stats.top20_articles))
        /\ pie_stats.total = FloatSum(SoldVals)
        /\ FloatAdd(pie_art.top20, pie_art.rest) = pie_stats.total

\* the same without the reconciliation
C15_BucketOnly ==
    pc = "pie" =>
        /\ IsTop20Of(SummaVals(pie_stats.top20_articles), SoldVals)
        /\ pie_art.top20 = FloatSum(SummaVals(pie_stats.top20_articles))
        /\ pie_stats.total = FloatSum(SoldVals)

(***************************************************************************)
(* Further claims about the parsers (SpecParse)                            *)
(***************************************************************************)
RawText == Strip(raw_value.text)

\* the last three characters of t, upper-cased
Last3(t) == UpperSeq(SubSeq(t, Len(t) - 2, Len(t)))

\* t ends with one of SEK, EUR, USD, GBP in any letter case
EndsWithCode(t) == Len(t) >= 3 /\ Last3(t) \in CurrencyCodes

\* t carries one of the codes somewhere
CarriesCode(t) ==
    \E i \in 1..(Len(t) - 2) : UpperSeq(SubSeq(t, i, i + 2)) \in CurrencyCodes

\* C19: the currency of a parsed amount is the upper-cased trailing
\* three-letter code when the text ends with one of SEK, EUR, USD, GBP in any
\* letter case, 'SEK' when the text carries no such code, and in every case
\* one of SEK, EUR, USD, GBP.
C19_Currency ==
    (pc \in {"amount_done", "parsed"} /\ amount_res.ok) =>
        /\ EndsWithCode(RawText) => amount_res.currency = CodeName(Last3(RawText))
        /\ ~CarriesCode(RawText) => amount_res.currency = "SEK"
        /\ amount_res.currency \in {"SEK", "EUR", "USD", "GBP"}

\* t is a numeric part followed by nothing or by one of the codes
IsDocumentedAmount(t) ==
    \/ IsNumericText(t)
    \/ /\ EndsWithCode(t)
       /\ IsNumericText(SubSeq(t, 1, Len(t) - 3))

\* the same on the texts the documentation describes: digits, separators and
\* an optional trailing code
C19_OnDocumentedTexts ==
    (pc \in {"amount_done", "parsed"} /\ amount_res.ok /\ IsDocumentedAmount(RawText)) =>
        /\ EndsWithCode(RawText) => amount_res.currency = CodeName(Last3(RawText))
        /\ ~CarriesCode(RawText) => amount_res.currency = "SEK"
        /\ amount_res.currency \in {"SEK", "EUR", "USD", "GBP"}

\* '1 eur' has been parsed as EUR
C19_DocumentedCases ==
    /\ pc = "amount_done"
    /\ amount_res.ok
    /\ RawText = <<"1", " ", "e", "u", "r">>
    /\ amount_res.currency = "EUR"

\* C20: the plain-number parser (clean_number in v2, clean_num in v3) returns
\* a text that ends with a '%' sign as a string and never as a number:
\* clean_number returns the text without its surrounding spaces, clean_num
\* the text as it stands, so that '15%' gives the string '15%' in both.
C20_PercentPassThrough ==
    (pc = "parsed_v3" /\ ~raw_value.isNone /\ EndsWith(RawText, "%")) =>
        /\ number_res = NumStr(RawText)
        /\ number_res3 = NumStr(raw_value.text)
        /\ (raw_value.text = Ex15Pct =>
                number_res = NumStr(Ex15Pct) /\ number_res3 = NumStr(Ex15Pct))

\* '15%' has gone through both parsers and came back as the string '15%'
C20_Witness ==
    /\ pc = "parsed_v3"
    /\ raw_value = TextCell(<<"1", "5", "%">>)
    /\ number_res = [tag |-> "str", val |-> 0, text |-> <<"1", "5", "%">>]
    /\ number_res3 = [tag |-> "str", val |-> 0, text |-> <<"1", "5", "%">>]

(***************************************************************************)
(* Claims about the master file of the Sales runs (SpecMaster)             *)
(***************************************************************************)
\* the article numbers listed in the master file's sheet, as they stand
MasterIds ==
    IF master_file.isNone
          \/ ~\E i \in 1..Len(master_file.wb.sheetnames) :
                  master_file.wb.sheetnames[i] = MasterSheetName
    THEN {}
    ELSE LET ws == master_file.wb.sheets[MasterSheetName] IN
         {ws[i].c1.text : i \in {j \in 1..Len(ws) : ~ws[j].c1.isNone}}

\* two identifiers are the same once trimmed and compared ignoring case
SameIdentifier(a, b) == UpperSeq(Strip(a)) = UpperSeq(Strip(b))

InMaster(a) == \E id \in MasterIds : SameIdentifier(a.artikelnr, id)

\* a v2 Sales run with a master file has stored its result
MasterRunDone == pc = "sales_v2" /\ sales_error = "none" /\ ~master_file.isNone

\* C21: with a master file, create_sales_output_v2 flags an article as new
\* exactly when its identifier, trimmed and compared ignoring case, is absent
\* from the master's identifiers; an article that differs from a master
\* identifier only in letter case or surrounding spaces is not flagged.
C21_NewArticles ==
    MasterRunDone =>
        sales_results.stats.new_articles = SelectSeq(articles, LAMBDA a : ~InMaster(a))

\* the sheet lists 'A1' and ' a1 ', the master lists ' a1' and 'b2' only:
\* both articles are in the master and none is flagged
C21_Witness ==
    /\ MasterRunDone
    /\ Len(articles) = 2
    /\ wb_raw.sheets["Article"][1].c1 = TextCell(<<"A", "1">>)
    /\ wb_raw.sheets["Article"][2].c1 = TextCell(<<" ", "a", "1", " ">>)
    /\ MasterIds = {<<" ", "a", "1">>, <<"b", "2">>}
    /\ sales_results.stats.new_articles = <<>>

\* the sheet lists 'B2' and 'A1', the master lists 'A1' only: B2 is flagged
C21_WitnessFlagged ==
    /\ MasterRunDone
    /\ Len(articles) = 2
    /\ MasterIds = {<<"A", "1">>}
    /\ Len(sales_results.stats.new_articles) = 1
    /\ sales_results.stats.new_articles[1].artikelnr = <<"B", "2">>

(***************************************************************************)
(* Claims about the pages (SpecPages)                                      *)
(***************************************************************************)
Titles(names) == Range(names)

\* a v2 Sales run without a master file, and a v2 Order Book run that found
\* its sheet and has no previous file
SalesRunNoMaster ==
    /\ pc \in {"sales_v2", "sales_v3", "sales_page"}
    /\ master_file.isNone
    /\ find_sheet(wb_raw.sheetnames, ArticleNamesV2).found

BookRunNoPrevious ==
    /\ pc = "ob_page"
    /\ current_file.readable
    /\ find_sheet(current_file.wb.sheetnames, OrderBookNamesV2).found
    /\ previous_file.isNone

\* C22: when the optional master or previous-week file is absent the run
\* succeeds and the comparison-dependent output is omitted.  A v2 Sales run
\* without a master file fails only where the same lists fail with a master
\* file too, and its result flags no article as new and has no 'New Articles'
\* sheet; a v2 Order Book run without a previous file stores its result with
\* wow_data None, and the workbook has no week-over-week section in the
\* Summary sheet and no 'Week-over-Week' sheet.
C22_OptionalFileAbsent ==
    /\ SalesRunNoMaster =>
          /\ master_articles.isNone
          /\ sales_error = create_sales_output_v2(articles, customers, MasterSet({})).error
          /\ sales_error = "none" =>
                /\ sales_results.set
                /\ sales_results.stats.new_articles = <<>>
                /\ "New Articles" \notin Titles(sales_results.workbook)
                /\ Titles(sales_results.workbook) =
                      {"Summary", "Top 20 Articles", "Top 20 Customers", "Articles", "Customers"}
    /\ BookRunNoPrevious =>
          /\ ob_error = "none"
          /\ ob_results.set
          /\ ob_results.wow_data.isNone
          /\ "Week-over-Week" \notin Titles(ob_results.workbook.sheetnames)
          /\ "WEEK-OVER-WEEK" \notin Titles(ob_results.workbook.sections)
          /\ ob_results.workbook.week_over_week = <<>>
          /\ Titles(ob_results.workbook.sheetnames) =
                {"Summary", "Warnings", "Order Book", "By Delivery Month"}

\* an Order Book run without a previous file on a sheet with an order
C22_Witness ==
    /\ BookRunNoPrevious
    /\ Len(ob_results.orders) = 1
    /\ ob_results.workbook.open_orders = 1

\* a Sales run without a master file that stored its result
C22_WitnessSales ==
    /\ SalesRunNoMaster
    /\ sales_error = "none"
    /\ Len(sales_results.articles) >= 1

\* with a previous file the week-over-week parts are written
C22_WitnessWithPrevious ==
    /\ pc = "ob_page"
    /\ ~ob_results.wow_data.isNone
    /\ "Week-over-Week" \in Titles(ob_results.workbook.sheetnames)

\* the runs in which the resolver returned None for the required sheet
BookSheetMissing ==
    /\ pc = "ob_page"
    /\ current_file.readable
    /\ ~find_sheet(current_file.wb.sheetnames, OrderBookNamesV2).found

BookSheetMissingV3 ==
    /\ pc = "ob_page3"
    /\ file3.readable
    /\ ~find_sheet_v3(file3.wb.sheetnames, OrderBookNamesV3).found

ArticleSheetMissing ==
    /\ pc \in {"sales_v2", "sales_v3", "sales_page"}
    /\ ~find_sheet(wb_raw.sheetnames, ArticleNamesV2).found

ArticleSheetMissingV3 ==
    /\ pc \in {"sales_v3", "sales_page"}
    /\ ~find_sheet_v3(wb_raw.sheetnames, ArticleNamesV3).found

\* C23: whenever the sheet resolver returns None for a required sheet, in
\* the Order Book and Sales modes of both applications, the user is shown an
\* error that names the sheets actually present in the workbook.
C23_SheetErrorNamesSheets ==
    /\ BookSheetMissing =>
          ob_error = "no_order_book_sheet" /\ ob_error_sheets = current_file.wb.sheetnames
    /\ ArticleSheetMissing =>
          sales_error = "no_article_sheet" /\ sales_error_sheets = wb_raw.sheetnames
    /\ BookSheetMissingV3 =>
          ob_error3 = "no_order_book_sheet" /\ ob_error_sheets3 = file3.wb.sheetnames
    /\ ArticleSheetMissingV3 =>
          sales_error3 = "no_article_sheet" /\ sales_error_sheets3 = wb_raw.sheetnames

\* the v2 application alone does as claimed
C23_NamesSheetsV2 ==
    /\ BookSheetMissing =>
          ob_error = "no_order_book_sheet" /\ ob_error_sheets = current_file.wb.sheetnames
    /\ ArticleSheetMissing =>
          sales_error = "no_article_sheet" /\ sales_error_sheets = wb_raw.sheetnames

C23_WitnessV2 == BookSheetMissing /\ Len(ob_error_sheets) = 2

C23_WitnessV3 == BookSheetMissingV3 /\ ob_error3 = "no_order_book_sheet"

\* the previous-week file was uploaded and is unreadable or has no order
\* book sheet
PreviousFileFailure ==
    /\ ~previous_file.isNone
    /\ \/ ~previous_file.readable
       \/ ~find_sheet(previous_file.wb.sheetnames, OrderBookNamesV2).found

CurrentFileFailure ==
    \/ ~current_file.readable
    \/ ~find_sheet(current_file.wb.sheetnames, OrderBookNamesV2).found

CompanySheetMissing == ~find_sheet(wb_raw.sheetnames, CompanyNamesV2).found

\* C24: a structural failure on any uploaded input (sheet not found or file
\* unreadable), including the previous-week order book and the Company sheet
\* of the sales workbook, is reported to the user, and the run stores no
\* success result: after a v2 Order Book run with such a failure an error is
\* shown, and so after a v2 Sales run.
C24_StructuralFailureReported ==
    /\ (pc = "ob_page" /\ (CurrentFileFailure \/ PreviousFileFailure)) => ob_error # "none"
    /\ (pc \in {"sales_v2", "sales_v3", "sales_page"}
            /\ (ArticleSheetMissing \/ CompanySheetMissing)) => sales_error # "none"

\* a failure of this week's file is reported, and so is a missing Article or
\* Company sheet (the latter as the ZeroDivisionError of the empty customer
\* list)
C24_CurrentFileReported ==
    /\ (pc = "ob_page" /\ CurrentFileFailure) => ob_error # "none"
    /\ (pc \in {"sales_v2", "sales_v3", "sales_page"}
            /\ (ArticleSheetMissing \/ CompanySheetMissing)) => sales_error # "none"

\* a run that ignored the failure of the previous-week file
C24_WitnessIgnored ==
    /\ pc = "ob_page"
    /\ PreviousFileFailure
    /\ ob_error = "none"
    /\ ob_results.set /\ ob_results.wow_data.isNone

(***************************************************************************)
(* Agreement of the two parsers (SpecParse)                                *)
(***************************************************************************)
BothParsed == pc \in {"parsed", "parsed_v3"} /\ ~raw_value.isNone

\* C25: the amount parser and the plain-number parser agree on numbers.  For
\* every text without a currency suffix that clean_number converts to a
\* float, clean_amount_with_currency returns that same float with currency
\* SEK; and for every text that clean_amount_with_currency parses with no
\* currency suffix, clean_number returns the same float.
C25_ParsersAgree ==
    (BothParsed /\ ~EndsWithCode(RawText)) =>
        /\ number_res.tag = "float" => amount_res = AmountOf(number_res.val, "SEK")
        /\ amount_res.ok => number_res = NumFloat(amount_res.amount)

\* on the texts made of digits and separators alone the two agree
C25_OnNumericTexts ==
    (BothParsed /\ IsNumericText(RawText)) =>
        /\ number_res.tag = "float" => amount_res = AmountOf(number_res.val, "SEK")
        /\ amount_res.ok => number_res = NumFloat(amount_res.amount)

\* '-1' is a float for clean_number and no amount
C25_WitnessSigned ==
    /\ BothParsed
    /\ RawText = <<"-", "1">>
    /\ number_res = NumFloat(-Unit)
    /\ ~amount_res.ok

\* '1x' is an amount of 1 SEK and no float for clean_number
C25_WitnessTrailing ==
    /\ BothParsed
    /\ RawText = <<"1", "x">>
    /\ amount_res = AmountOf(Unit, "SEK")
    /\ number_res.tag = "str"

\* '1,10' is 1.1 for both
C25_WitnessAgree ==
    /\ BothParsed
    /\ RawText = <<"1", ",", "1", "0">>
    /\ number_res = NumFloat(11 * (Unit \div 10))
    /\ amount_res = AmountOf(11 * (Unit \div 10), "SEK")

(***************************************************************************)
(* The session across runs (SpecPages)                                     *)
(***************************************************************************)
\* what the most recent run of each Order Book page computes from its files
LastRun == order_book_process(current_file, previous_file, fx_rates, NoObResults)
LastRunV3 == order_book_process_v3(file3, fx_rates, NoObRes)

\* C26: after any sequence of Process runs in the Order Book mode, the stored
\* session result that is displayed with the success banner is the output of
\* the most recent run.
C26_SessionIsLastRun ==
    /\ (pc = "ob_page" /\ order_book_page(ob_results).banner) =>
          /\ ob_error = "none"
          /\ ob_results = LastRun.results
    /\ (pc = "ob_page3" /\ order_book_page_v3(ob_res).banner) =>
          /\ ob_error3 = "none"
          /\ ob_res = LastRunV3.res

\* each successful run replaces the stored result as a whole, and a failing
\* run leaves the session as it was
C26_ReplacedWholesale ==
    [][/\ pc' = "ob_page" =>
            IF ob_error' = "none"
            THEN ob_results' = order_book_process(current_file', previous_file', fx_rates,
                                                  NoObResults).results
            ELSE ob_results' = ob_results
       /\ pc' = "ob_page3" =>
            IF ob_error3' = "none"
            THEN ob_res' = order_book_process_v3(file3', fx_rates, NoObRes).res
            ELSE ob_res' = ob_res]_vars

\* a failing run after a successful one: the banner is shown over the earlier
\* run's result, next to the error
C26_WitnessStale ==
    /\ pc = "ob_page"
    /\ ob_error = "no_order_book_sheet"
    /\ order_book_page(ob_results).banner
    /\ order_book_page(ob_results).orders = 2

C26_WitnessStaleV3 ==
    /\ pc = "ob_page3"
    /\ ob_error3 # "none"
    /\ order_book_page_v3(ob_res).banner

(***************************************************************************)
(* Orders without a date (SpecPages)                                       *)
(***************************************************************************)
\* the sheet the last successful v2 Order Book run read, its rows whose
\* amount parses, and the same sheet with today's date in every date cell
RunSheet(file) == file.wb.sheets[find_sheet(file.wb.sheetnames, OrderBookNamesV2).name]

RunRows == SelectSeq(RunSheet(current_file), LAMBDA row : clean_amount_with_currency(row.c6).ok)

Redated(rows) == [i \in 1..Len(rows) |-> [rows[i] EXCEPT !.c2 = DateCell(Today)]]

RedatedOrders(file) == parse_order_book(Redated(RunSheet(file)), fx_rates)

WowFigures(w) ==
    <<w.new.count, w.new.total, w.closed.count, w.closed.total,
      w.unchanged.count, w.unchanged.total, w.net_count, w.net_amount>>

BookRunStored == pc = "ob_page" /\ ob_error = "none"

\* C27: an order row whose date cell holds no datetime (a text, a number or
\* nothing) is extracted with a null order date; analyze_order_aging never
\* returns that order, and the order count, the total value, the customer
\* concentration and the week-over-week figures are what they would be with
\* a date in every date cell.
C27_NullDate ==
    BookRunStored =>
        LET os   == ob_results.orders
            page == order_book_page(ob_results)
        IN  /\ Len(os) = Len(RunRows)
            /\ \A n \in 1..Len(os) :
                  ~RunRows[n].c2.isDate =>
                      /\ os[n].orderdatum = NoDateCell
                      /\ \A k \in 1..Len(page.aging) : page.aging[k].ordernr # os[n].ordernr
                      /\ \A k \in 1..Len(ob_results.workbook.aging) :
                            ob_results.workbook.aging[k].ordernr # os[n].ordernr
            /\ page.orders = Len(RedatedOrders(current_file))
            /\ ob_results.workbook.open_orders = Len(RedatedOrders(current_file))
            /\ page.total_sek = TotalSek(RedatedOrders(current_file))
            /\ ob_results.workbook.total_value = TotalSek(RedatedOrders(current_file))
            /\ analyze_customer_concentration(os) =
                  analyze_customer_concentration(RedatedOrders(current_file))
            /\ ~ob_results.wow_data.isNone =>
                  WowFigures(ob_results.wow_data.data) =
                      WowFigures(analyze_week_over_week(RedatedOrders(current_file),
                                                        RedatedOrders(previous_file)))

\* a dated order of 200 days and one with a text in the date cell, compared
\* with last week's book: two orders counted, one of them aging
C27_Witness ==
    /\ BookRunStored
    /\ Len(ob_results.orders) = 2
    /\ ob_results.orders[2].orderdatum = NoDateCell
    /\ "text" \in DOMAIN RunRows[2].c2
    /\ Len(order_book_page(ob_results).aging) = 1
    /\ ~ob_results.wow_data.isNone
    /\ ob_results.wow_data.data.new.count = 1

\* a number in the date cell
C27_WitnessNumber ==
    /\ BookRunStored
    /\ Len(ob_results.orders) = 1
    /\ "number" \in DOMAIN RunRows[1].c2
    /\ order_book_page(ob_results).total_sek > 0

(***************************************************************************)
(* Order of the cohort lists (SpecSorted)                                  *)
(***************************************************************************)
IsDescending(keys) == \A i, j \in 1..Len(keys) : i < j => keys[i] >= keys[j]
IsAscending(keys) == \A i, j \in 1..Len(keys) : i < j => keys[i] <= keys[j]

\* C28: the cohort lists are returned sorted: Churned by previous-period
\* revenue descending, Declining by change ascending, Growing by change
\* descending and New by current revenue descending, by analyze_cohorts and
\* by analyze_sales_intelligence.
C28_CohortListsSorted ==
    /\ pc \in {"cohorts", "html"} =>
          /\ IsDescending([i \in 1..Len(cohorts.churned) |-> cohorts.churned[i].previous])
          /\ IsAscending([i \in 1..Len(cohorts.declining) |-> cohorts.declining[i].change])
          /\ IsDescending([i \in 1..Len(cohorts.growing) |-> cohorts.growing[i].change])
          /\ IsDescending([i \in 1..Len(cohorts.new) |-> cohorts.new[i].current])
    /\ pc = "analysis" =>
          /\ IsDescending([i \in 1..Len(analysis.churned) |-> analysis.churned[i].ltm_prev])
          /\ IsAscending([i \in 1..Len(analysis.declining) |-> analysis.declining[i].change])
          /\ IsDescending([i \in 1..Len(analysis.growing) |-> analysis.growing[i].change])
          /\ IsDescending([i \in 1..Len(analysis.new_customers) |->
                              analysis.new_customers[i].ltm_now])

\* two churned customers of analyze_cohorts that the sort has swapped
C28_Witness ==
    /\ pc = "cohorts"
    /\ Len(cohorts.churned) = 2
    /\ cohorts.churned[1].previous > cohorts.churned[2].previous
    /\ cohorts.churned[1].kund = data.customers[2].kund
    /\ data.customers[1].kund # data.customers[2].kund

\* two declining customers of analyze_sales_intelligence that the sort has
\* swapped, and likewise two churned, two growing and two new ones
C28_WitnessDeclining ==
    /\ pc = "analysis"
    /\ Len(analysis.declining) = 2
    /\ analysis.declining[1].change < analysis.declining[2].change
    /\ analysis.declining[1] = master_customers[2]

C28_WitnessChurned ==
    /\ pc = "analysis"
    /\ Len(analysis.churned) = 2
    /\ analysis.churned[1].ltm_prev > analysis.churned[2].ltm_prev
    /\ analysis.churned[1] = master_customers[2]

C28_WitnessGrowing ==
    /\ pc = "analysis"
    /\ Len(analysis.growing) = 2
    /\ analysis.growing[1].change > analysis.growing[2].change
    /\ analysis.growing[1] = master_customers[2]

C28_WitnessNew ==
    /\ pc = "analysis"
    /\ Len(analysis.new_customers) = 2
    /\ analysis.new_customers[1].ltm_now > analysis.new_customers[2].ltm_now
    /\ analysis.new_customers[1] = master_customers[2]

C28_WitnessCohortLists ==
    /\ pc = "cohorts"
    /\ \/ Len(cohorts.declining) = 2 /\ cohorts.declining[1].change < cohorts.declining[2].change
             /\ cohorts.declining[1].kund # data.customers[1].kund
       \/ Len(cohorts.growing) = 2 /\ cohorts.growing[1].change > cohorts.growing[2].change
             /\ cohorts.growing[1].kund # data.customers[1].kund

(***************************************************************************)
(* The sheets of a v2 Sales run (SpecSales)                                *)
(***************************************************************************)
SalesRunParsed ==
    /\ pc \in {"sales_v2", "sales_v3", "sales_page"}
    /\ find_sheet(wb_raw.sheetnames, ArticleNamesV2).found

\* the workbook has a sheet whose name is one of the Company candidates
HasCompanySheet ==
    \E i \in 1..Len(wb_raw.sheetnames), j \in 1..Len(CompanyNamesV2) :
        Lower(wb_raw.sheetnames[i]) = Lower(CompanyNamesV2[j])

\* C29: in a v2 Sales run the sheet the customer records are extracted from
\* is never the sheet the article records are extracted from, and when no
\* sheet of the workbook matches a Company candidate name no customer record
\* is extracted.
C29_DistinctSheets ==
    SalesRunParsed =>
        /\ find_sheet(wb_raw.sheetnames, CompanyNamesV2).found =>
              find_sheet(wb_raw.sheetnames, CompanyNamesV2).name #
                  find_sheet(wb_raw.sheetnames, ArticleNamesV2).name
        /\ ~HasCompanySheet => customers = <<>>

\* with two or more sheets the claim holds
C29_SeveralSheets ==
    (SalesRunParsed /\ Len(wb_raw.sheetnames) >= 2) =>
        /\ find_sheet(wb_raw.sheetnames, CompanyNamesV2).found =>
              find_sheet(wb_raw.sheetnames, CompanyNamesV2).name #
                  find_sheet(wb_raw.sheetnames, ArticleNamesV2).name
        /\ ~HasCompanySheet => customers = <<>>

\* a workbook with the single sheet 'Sheet1': articles and customers are both
\* read from it
C29_WitnessSameSheet ==
    /\ SalesRunParsed
    /\ wb_raw.sheetnames = <<"Sheet1">>
    /\ ~HasCompanySheet
    /\ Len(customers) >= 1
    /\ Len(articles) >= 1

C29_WitnessTwoSheets ==
    /\ SalesRunParsed
    /\ wb_raw.sheetnames = <<"Article", "Summary">>
    /\ Len(articles) >= 1
    /\ customers = <<>>

(***************************************************************************)
(* Claims about the period selection (SpecPeriods)                         *)
(***************************************************************************)
\* months since year 0
MonthIndex(l) == l.year * 12 + l.month

DashboardDone == pc = "intel_page3" /\ ltm_keys # {}

\* C30: the current period chosen is the chronologically latest label; with
\* more than 12 labels the previous period chosen is the label 12 months
\* before it, and with 12 or fewer labels it is the chronologically earliest
\* label.
C30_PeriodSelection ==
    DashboardDone =>
        LET by_date == SortedByDate(ltm_keys) IN
        /\ intel_ltm.set
        /\ intel_ltm.curr.label = by_date[Len(by_date)]
        /\ Cardinality(ltm_keys) > 12 =>
              MonthIndex(intel_ltm.prev.label) = MonthIndex(intel_ltm.curr.label) - 12
        /\ Cardinality(ltm_keys) <= 12 => intel_ltm.prev.label = by_date[1]

\* what the handler does choose: the last label in str order, and the 13th
\* from the end or the first in str order
C30_TextOrder ==
    DashboardDone =>
        LET ltms == SortedLabels(ltm_keys) IN
        /\ intel_ltm.set
        /\ intel_ltm.curr.label = ltms[Len(ltms)]
        /\ \A l \in ltm_keys : ~TextLess(LabelText(intel_ltm.curr.label), LabelText(l))
        /\ intel_ltm.prev.label = IF Len(ltms) > 12 THEN ltms[Len(ltms) - 12] ELSE ltms[1]

\* the twelve labels of 2023: September is chosen as the current period and
\* April as the previous one
C30_WitnessYear ==
    /\ pc = "intel_page3"
    /\ ltm_keys = {Label(2023, mo) : mo \in 1..12}
    /\ intel_ltm.curr.label = Label(2023, 9)
    /\ intel_ltm.prev.label = Label(2023, 4)

\* the labels of December 2023 and December 2024 are chosen as claimed
C30_WitnessDecembers ==
    /\ pc = "intel_page3"
    /\ ltm_keys = {Label(2023, 12), Label(2024, 12)}
    /\ intel_ltm.curr.label = Label(2024, 12)
    /\ intel_ltm.prev.label = Label(2023, 12)

\* no label: the error is shown and nothing is stored
C30_WitnessNoLabels ==
    /\ pc = "intel_page3"
    /\ ltm_keys = {}
    /\ intel_error3 = "no_ltm_data"
    /\ ~intel_ltm.set

====
